---- MODULE Spec2Model ----
(***************************************************************************)
(* Job pipeline of AI-summary: the job rows of summary_jobs, the RQ work   *)
(* queue, the workers running process_youtube / process_upload, and the    *)
(* HTTP handlers that submit, retry and cancel jobs.                       *)
(*                                                                         *)
(* Granularity.  A worker step is one job-store write together with the    *)
(* provider call that precedes it (provider calls touch no shared state).  *)
(* retry_job and cancel_job read the row (db.query ... first()) and commit *)
(* later (db.commit()): the read and the commit are separate steps, as     *)
(* they are separate statements of separate transactions in the code.      *)
(* A commit writes the attributes the handler assigned.                    *)
(***************************************************************************)
EXTENDS Integers, Sequences, FiniteSets, TLC

\* ---- bounds of the model ------------------------------------------------
\* retry requests accepted per job when handlers run concurrently (Spec)
MaxRetryRequests == 2
\* retry requests accepted per job when one handler runs at a time (SeqSpec)
MaxSeqRetryRequests == 3
\* chunks _split_audio cuts a file into
MaxChunks == 2
\* ages of rows are kept up to this many seconds (sweep view)
MaxAgeSeconds == 5400
\* attempts made for the job of the file view
MaxFileAttempts == 2

\* ---- program constants --------------------------------------------------
job_max_retries == 2
retention_cleanup_batch_size == 200

JobIds == {"j1"}
Workers == {"w1", "w2"}
Clients == {"c1", "c2"}

Statuses == {"queued", "running", "cancel_requested", "cancelled", "done", "error"}
Terminal == {"done", "error", "cancelled"}
SourceTypes == {"youtube", "upload"}

\* codes of _classify_error; an error payload is modelled by its code
ErrorCodes ==
    {"youtube_auth_required", "audio_too_long_for_model", "upstream_rate_limited",
     "upstream_timeout", "invalid_media_input", "processing_failed"}

\* the failures the model raises: one retryable, one not
RaisedCodes == {"upstream_timeout", "processing_failed"}

Retryable(code) ==
    code \in {"audio_too_long_for_model", "upstream_rate_limited", "upstream_timeout"}

NoError == "null"
CancelledPayload == "cancelled"

Min(a, b) == IF a <= b THEN a ELSE b

VARIABLES
    jobs,               \* job id -> row of summary_jobs (row = "none" | "present" | "deleted")
    queue,              \* the RQ queue: sequence of work items
    workers,            \* worker -> position in process_youtube / process_upload
    reqs,               \* client -> retry/cancel request between its read and its commit
    accepted_retries,   \* history: job id -> number of retry requests committed
    response,           \* observed client -> the last HTTP response it received
    disk,               \* scratch files and staged blobs in existence (file view)
    jobrow,             \* the job row as the file view sees it
    attempt,            \* the attempt of the file view: position and local variables
    table,              \* summary_jobs as the retention sweep sees it: id -> status, age
    lock_ttl,           \* seconds the key maintenance:retention_cleanup_lock has left
    sweepers,           \* worker -> position in _maybe_run_retention_cleanup
    settings,           \* the Settings the sweep reads
    run,                \* one attempt followed alone: its locals and its row
    call                \* one call of a pure function: its argument and its result

\* the job pipeline; the file view; the sweep view; the single-unit views
job_vars == <<jobs, queue, workers, reqs, accepted_retries>>
files_vars == <<disk, jobrow, attempt>>
sweep_vars == <<table, lock_ttl, sweepers, settings>>
unit_vars == <<run, call>>

vars == <<job_vars, response, files_vars, sweep_vars, unit_vars>>

\* ---- job rows -------------------------------------------------------------
NoRow ==
    [row |-> "none", status |-> "none", progress |-> 0, source_type |-> "none",
     transcript |-> "null", summary |-> FALSE, error |-> NoError]

DeletedRow == [NoRow EXCEPT !.row = "deleted"]

\* Job(...) with the column defaults of the mapped class
NewJob(source_type) ==
    [row |-> "present", status |-> "queued", progress |-> 0, source_type |-> source_type,
     transcript |-> "null", summary |-> FALSE, error |-> NoError]

Exists(j) == jobs[j].row = "present"

Merge(row, fields) ==
    [f \in DOMAIN row |-> IF f \in DOMAIN fields THEN fields[f] ELSE row[f]]

\* _update_job: no row, no write
UpdateJob(j, fields) ==
    IF jobs[j].row = "present" THEN [jobs EXCEPT ![j] = Merge(@, fields)] ELSE jobs

\* ---- the queue ------------------------------------------------------------
\* q.enqueue(func_path, job_id, ...) passes the job id as the task's argument;
\* the RQ job itself gets an id RQ generates, which is no job id.
RqGeneratedId == "uuid4"

TaskFor(source_type) ==
    IF source_type = "youtube" THEN "process_youtube" ELSE "process_upload"

WorkItem(task, j) == [rq_id |-> RqGeneratedId, task |-> task, job |-> j]

enqueue_task(q, task, j) == Append(q, WorkItem(task, j))

RECURSIVE Without(_, _)
Without(q, id) ==
    IF q = <<>> THEN <<>>
    ELSE IF Head(q).rq_id = id THEN Without(Tail(q), id)
    ELSE <<Head(q)>> \o Without(Tail(q), id)

\* RQJob.fetch(str(job.id)).cancel(), NoSuchJobError swallowed
RQCancel(q, id) == Without(q, id)

\* ---- fields written by the handlers and the workers -----------------------
RunningFields == [status |-> "running", progress |-> 5]

\* faulty variant of DoneFields: the last write forgets the summary
DoneFieldsNoSummary == [status |-> "done", progress |-> 100]

DoneFields == [summary |-> TRUE, status |-> "done", progress |-> 100]

\* faulty variants of ErrorFields: the handler forgets the payload / the status
ErrorFieldsNoPayload(code) == [status |-> "error"]

ErrorFieldsNoStatus(code) == [error |-> code]

ErrorFields(code) == [status |-> "error", error |-> code]

\* faulty variant of RetryFields: the retry keeps the failed attempt's progress
RetryFieldsKeepProgress == [status |-> "queued", error |-> NoError]

RetryFields == [status |-> "queued", progress |-> 0, error |-> NoError]

CancelRequestedFields == [status |-> "cancel_requested"]

CancelQueuedFields == [status |-> "cancelled", progress |-> 0, error |-> CancelledPayload]

\* ---- workers --------------------------------------------------------------
IdleWorker ==
    [pc |-> "idle", job |-> "none", task |-> "none",
     chunk |-> 0, chunks |-> 0, tsource |-> "none"]

IdleReq == [pc |-> "idle", job |-> "none", seen |-> "none"]

TryBody ==
    {"sweep", "mark_running", "load", "metadata", "captions", "download", "resolve",
     "transcribe", "save_transcript", "summarize_begin", "summarize"}

\* ---- HTTP responses ---------------------------------------------------------
NoResponse == [op |-> "none", job |-> "none", code |-> 0]

\* no client's responses are observed
Unobserved == [c \in {} |-> NoResponse]

\* the handler answers client c (return {...} or raise HTTPException(code));
\* the responses of the clients in DOMAIN response are kept
Respond(c, op, j, code) ==
    response' = IF c \in DOMAIN response
                THEN [response EXCEPT ![c] = [op |-> op, job |-> j, code |-> code]]
                ELSE response

JobInit ==
    /\ jobs = [j \in JobIds |-> NoRow]
    /\ queue = <<>>
    /\ workers = [w \in Workers |-> IdleWorker]
    /\ reqs = [c \in Clients |-> IdleReq]
    /\ accepted_retries = [j \in JobIds |-> 0]

\* the file view and the sweep view at rest
FilesIdle ==
    /\ disk = {}
    /\ jobrow = "none"
    /\ attempt = "none"

SweepIdle ==
    /\ table = <<>>
    /\ lock_ttl = 0
    /\ sweepers = <<>>
    /\ settings = "none"

UnitIdle ==
    /\ run = "none"
    /\ call = "none"

Init ==
    /\ JobInit
    /\ response = Unobserved
    /\ FilesIdle
    /\ SweepIdle
    /\ UnitIdle

\* client c1's responses are observed
SeqInit ==
    /\ JobInit
    /\ response = [c \in {"c1"} |-> NoResponse]
    /\ FilesIdle
    /\ SweepIdle
    /\ UnitIdle

\* ---- submission -----------------------------------------------------------
FreshId(j) == jobs[j].row = "none"

SubmitYoutube(j) ==
    /\ FreshId(j)
    /\ jobs' = [jobs EXCEPT ![j] = NewJob("youtube")]
    /\ queue' = Append(queue, WorkItem("process_youtube", j))
    /\ UNCHANGED <<workers, reqs, accepted_retries>>
    /\ UNCHANGED <<response, files_vars, sweep_vars, unit_vars>>

UploadFile(j) ==
    /\ FreshId(j)
    /\ jobs' = [jobs EXCEPT ![j] = NewJob("upload")]
    /\ queue' = enqueue_task(queue, "process_upload", j)
    /\ UNCHANGED <<workers, reqs, accepted_retries>>
    /\ UNCHANGED <<response, files_vars, sweep_vars, unit_vars>>

\* ---- the worker: dequeue, then process_youtube / process_upload -----------
Goto(w, pc) == [workers EXCEPT ![w].pc = pc]

Pickup(w) ==
    /\ workers[w].pc = "idle"
    /\ queue # <<>>
    /\ workers' = [workers EXCEPT ![w] =
                      [IdleWorker EXCEPT !.pc = "sweep", !.job = Head(queue).job,
                                         !.task = Head(queue).task]]
    /\ queue' = Tail(queue)
    /\ UNCHANGED <<jobs, reqs, accepted_retries>>
    /\ UNCHANGED <<response, files_vars, sweep_vars, unit_vars>>

\* The rows the sweep's query can select: done/error rows whose created_at is
\* behind the cutoff.  The clock is not part of the state: which done/error rows
\* are that old, and whether the lock key has expired, is chosen at the sweep.
Sweepable == {j \in JobIds : Exists(j) /\ jobs[j].status \in {"done", "error"}}

SweepBatches ==
    {S \in SUBSET Sweepable : Cardinality(S) <= retention_cleanup_batch_size}

\* _maybe_run_retention_cleanup
Sweep(w) ==
    /\ workers[w].pc = "sweep"
    /\ \E got_lock \in BOOLEAN :
         IF got_lock
         THEN \E S \in SweepBatches :
                jobs' = [j \in JobIds |-> IF j \in S THEN DeletedRow ELSE jobs[j]]
         ELSE UNCHANGED jobs
    /\ workers' = Goto(w, "mark_running")
    /\ UNCHANGED <<queue, reqs, accepted_retries>>
    /\ UNCHANGED <<response, files_vars, sweep_vars, unit_vars>>

\* the same sweep, run at the start of an attempt for a job outside JobIds
OtherJobSweep ==
    /\ \E S \in SweepBatches :
         /\ S # {}
         /\ jobs' = [j \in JobIds |-> IF j \in S THEN DeletedRow ELSE jobs[j]]
    /\ UNCHANGED <<queue, workers, reqs, accepted_retries>>
    /\ UNCHANGED <<response, files_vars, sweep_vars, unit_vars>>

MarkRunning(w) ==
    /\ workers[w].pc = "mark_running"
    /\ jobs' = UpdateJob(workers[w].job, RunningFields)
    /\ workers' = Goto(w, "load")
    /\ UNCHANGED <<queue, reqs, accepted_retries>>
    /\ UNCHANGED <<response, files_vars, sweep_vars, unit_vars>>

Load(w) ==
    /\ workers[w].pc = "load"
    /\ workers' = Goto(w, IF ~Exists(workers[w].job) THEN "finally"
                          ELSE IF workers[w].task = "process_youtube" THEN "metadata"
                          ELSE "resolve")
    /\ UNCHANGED <<jobs, queue, reqs, accepted_retries>>
    /\ UNCHANGED <<response, files_vars, sweep_vars, unit_vars>>

Metadata(w) ==
    /\ workers[w].pc = "metadata"
    /\ jobs' = UpdateJob(workers[w].job, [progress |-> 10])
    /\ workers' = Goto(w, "captions")
    /\ UNCHANGED <<queue, reqs, accepted_retries>>
    /\ UNCHANGED <<response, files_vars, sweep_vars, unit_vars>>

Captions(w) ==
    /\ workers[w].pc = "captions"
    /\ \E found \in BOOLEAN :
         IF found
         THEN /\ jobs' = UpdateJob(workers[w].job, [progress |-> 30])
              /\ workers' = [workers EXCEPT ![w].pc = "save_transcript",
                                            ![w].tsource = "captions"]
         ELSE /\ jobs' = UpdateJob(workers[w].job, [progress |-> 15])
              /\ workers' = Goto(w, "download")
    /\ UNCHANGED <<queue, reqs, accepted_retries>>
    /\ UNCHANGED <<response, files_vars, sweep_vars, unit_vars>>

Download(w) ==
    /\ workers[w].pc = "download"
    /\ jobs' = UpdateJob(workers[w].job, [progress |-> 25])
    /\ workers' = Goto(w, "transcribe")
    /\ UNCHANGED <<queue, reqs, accepted_retries>>
    /\ UNCHANGED <<response, files_vars, sweep_vars, unit_vars>>

Resolve(w) ==
    /\ workers[w].pc = "resolve"
    /\ jobs' = UpdateJob(workers[w].job, [progress |-> 15])
    /\ workers' = Goto(w, "transcribe")
    /\ UNCHANGED <<queue, reqs, accepted_retries>>
    /\ UNCHANGED <<response, files_vars, sweep_vars, unit_vars>>

ChunkProgress(k, n) == Min(30 + (50 * k) \div n, 80)

\* one chunk of transcribe_file and its on_progress callback
TranscribeChunk(w) ==
    /\ workers[w].pc = "transcribe"
    /\ \E n \in (IF workers[w].chunks = 0 THEN 1..MaxChunks ELSE {workers[w].chunks}) :
         LET k == workers[w].chunk + 1 IN
         /\ jobs' = UpdateJob(workers[w].job, [progress |-> ChunkProgress(k, n)])
         /\ IF k < n
            THEN workers' = [workers EXCEPT ![w].chunk = k, ![w].chunks = n]
            ELSE workers' = [workers EXCEPT ![w].pc = "save_transcript",
                                            ![w].chunk = 0, ![w].chunks = 0,
                                            ![w].tsource = "asr"]
    /\ UNCHANGED <<queue, reqs, accepted_retries>>
    /\ UNCHANGED <<response, files_vars, sweep_vars, unit_vars>>

SaveTranscript(w) ==
    /\ workers[w].pc = "save_transcript"
    /\ jobs' = UpdateJob(workers[w].job, [transcript |-> workers[w].tsource, progress |-> 80])
    /\ workers' = Goto(w, "summarize_begin")
    /\ UNCHANGED <<queue, reqs, accepted_retries>>
    /\ UNCHANGED <<response, files_vars, sweep_vars, unit_vars>>

SummarizeBegin(w) ==
    /\ workers[w].pc = "summarize_begin"
    /\ jobs' = UpdateJob(workers[w].job, [progress |-> 85])
    /\ workers' = Goto(w, "summarize")
    /\ UNCHANGED <<queue, reqs, accepted_retries>>
    /\ UNCHANGED <<response, files_vars, sweep_vars, unit_vars>>

Summarize(w) ==
    /\ workers[w].pc = "summarize"
    /\ jobs' = UpdateJob(workers[w].job, DoneFields)
    /\ workers' = Goto(w, "finally")
    /\ UNCHANGED <<queue, reqs, accepted_retries>>
    /\ UNCHANGED <<response, files_vars, sweep_vars, unit_vars>>

\* The step the worker is at raises instead of completing.  The exception is
\* local to the worker until the handler writes its payload, so its
\* classification is drawn where it is written (Except).
Raise(w) ==
    /\ workers[w].pc \in TryBody
    /\ workers' = [workers EXCEPT ![w].pc = "except",
                                  ![w].chunk = 0, ![w].chunks = 0, ![w].tsource = "none"]
    /\ UNCHANGED <<jobs, queue, reqs, accepted_retries>>
    /\ UNCHANGED <<response, files_vars, sweep_vars, unit_vars>>

\* except Exception as exc: _update_job(status="error", error=_job_error_payload(exc))
Except(w) ==
    /\ workers[w].pc = "except"
    /\ \E code \in RaisedCodes : jobs' = UpdateJob(workers[w].job, ErrorFields(code))
    /\ workers' = Goto(w, "finally")
    /\ UNCHANGED <<queue, reqs, accepted_retries>>
    /\ UNCHANGED <<response, files_vars, sweep_vars, unit_vars>>

\* finally: scratch files removed; the task returns to the RQ worker
Finally(w) ==
    /\ workers[w].pc = "finally"
    /\ workers' = [workers EXCEPT ![w] = IdleWorker]
    /\ UNCHANGED <<jobs, queue, reqs, accepted_retries>>
    /\ UNCHANGED <<response, files_vars, sweep_vars, unit_vars>>

\* ---- POST /v1/jobs/{id}/retry ---------------------------------------------
InFlightRetries(j) == {c \in Clients : reqs[c].pc = "retry_commit" /\ reqs[c].job = j}

\* 404 Job not found, 409 Only failed jobs can be retried
RetryRejected(j) == ~Exists(j) \/ jobs[j].status # "error"

\* the read of retry_job and its checks; a rejected request changes nothing
RetryBegin(c, j, limit) ==
    /\ reqs[c].pc = "idle"
    /\ IF RetryRejected(j)
       THEN /\ UNCHANGED reqs
            /\ Respond(c, "retry", j, IF Exists(j) THEN 409 ELSE 404)
       ELSE /\ accepted_retries[j] + Cardinality(InFlightRetries(j)) < limit
            /\ reqs' = [reqs EXCEPT ![c] = [pc |-> "retry_commit", job |-> j, seen |-> "error"]]
            /\ UNCHANGED response
    /\ UNCHANGED <<jobs, queue, workers, accepted_retries>>
    /\ UNCHANGED <<files_vars, sweep_vars, unit_vars>>

\* db.commit() and enqueue_task(task, job.id); a commit on a row the sweep has
\* deleted fails and nothing is enqueued
RetryCommit(c) ==
    LET j == reqs[c].job IN
    /\ reqs[c].pc = "retry_commit"
    /\ reqs' = [reqs EXCEPT ![c] = IdleReq]
    /\ IF Exists(j)
       THEN /\ jobs' = UpdateJob(j, RetryFields)
            /\ queue' = enqueue_task(queue, TaskFor(jobs[j].source_type), j)
            /\ accepted_retries' = [accepted_retries EXCEPT ![j] = @ + 1]
            /\ Respond(c, "retry", j, 200)
       ELSE /\ UNCHANGED <<jobs, queue, accepted_retries>>
            /\ Respond(c, "retry", j, 500)
    /\ UNCHANGED workers
    /\ UNCHANGED <<files_vars, sweep_vars, unit_vars>>

\* ---- POST /v1/jobs/{id}/cancel --------------------------------------------
\* faulty variant of CancelRejected: a failed job passes the status check
CancelRejectedNotError(j) == ~Exists(j) \/ jobs[j].status \in {"done", "cancelled"}

\* 404 Job not found, 409 Cannot cancel job in status ...
CancelRejected(j) == ~Exists(j) \/ jobs[j].status \in {"done", "error", "cancelled"}

\* the read of cancel_job and its checks; a rejected request changes nothing
CancelBegin(c, j) ==
    /\ reqs[c].pc = "idle"
    /\ IF CancelRejected(j)
       THEN /\ UNCHANGED reqs
            /\ Respond(c, "cancel", j, IF Exists(j) THEN 409 ELSE 404)
       ELSE /\ UNCHANGED response
            /\ IF jobs[j].status = "running"
               THEN reqs' = [reqs EXCEPT ![c] =
                                [pc |-> "cancel_running_commit", job |-> j, seen |-> "running"]]
               ELSE reqs' = [reqs EXCEPT ![c] =
                                [pc |-> "cancel_queued_commit", job |-> j, seen |-> jobs[j].status]]
    /\ UNCHANGED <<jobs, queue, workers, accepted_retries>>
    /\ UNCHANGED <<files_vars, sweep_vars, unit_vars>>

\* job.status = "cancel_requested"; db.commit()
CancelRunningCommit(c) ==
    LET j == reqs[c].job IN
    /\ reqs[c].pc = "cancel_running_commit"
    /\ reqs' = [reqs EXCEPT ![c] = IdleReq]
    /\ jobs' = UpdateJob(j, CancelRequestedFields)
    /\ Respond(c, "cancel", j, IF Exists(j) THEN 200 ELSE 500)
    /\ UNCHANGED <<queue, workers, accepted_retries>>
    /\ UNCHANGED <<files_vars, sweep_vars, unit_vars>>

\* RQJob.fetch(str(job.id)).cancel(), then status cancelled; db.commit()
CancelQueuedCommit(c) ==
    LET j == reqs[c].job IN
    /\ reqs[c].pc = "cancel_queued_commit"
    /\ reqs' = [reqs EXCEPT ![c] = IdleReq]
    /\ queue' = RQCancel(queue, j)
    /\ jobs' = UpdateJob(j, CancelQueuedFields)
    /\ Respond(c, "cancel", j, IF Exists(j) THEN 200 ELSE 500)
    /\ UNCHANGED <<workers, accepted_retries>>
    /\ UNCHANGED <<files_vars, sweep_vars, unit_vars>>

WorkerStep(w) ==
    \/ Pickup(w) \/ Sweep(w) \/ MarkRunning(w) \/ Load(w) \/ Metadata(w) \/ Captions(w)
    \/ Download(w) \/ Resolve(w) \/ TranscribeChunk(w) \/ SaveTranscript(w)
    \/ SummarizeBegin(w) \/ Summarize(w) \/ Except(w) \/ Finally(w)

CommitStep(c) == RetryCommit(c) \/ CancelRunningCommit(c) \/ CancelQueuedCommit(c)

Next ==
    \/ \E j \in JobIds : SubmitYoutube(j)
    \/ \E j \in JobIds : UploadFile(j)
    \/ \E w \in Workers : Pickup(w)
    \/ \E w \in Workers : Sweep(w)
    \/ OtherJobSweep
    \/ \E w \in Workers : MarkRunning(w)
    \/ \E w \in Workers : Load(w)
    \/ \E w \in Workers : Metadata(w)
    \/ \E w \in Workers : Captions(w)
    \/ \E w \in Workers : Download(w)
    \/ \E w \in Workers : Resolve(w)
    \/ \E w \in Workers : TranscribeChunk(w)
    \/ \E w \in Workers : SaveTranscript(w)
    \/ \E w \in Workers : SummarizeBegin(w)
    \/ \E w \in Workers : Summarize(w)
    \/ \E w \in Workers : Raise(w)
    \/ \E w \in Workers : Except(w)
    \/ \E w \in Workers : Finally(w)
    \/ \E c \in Clients, j \in JobIds : RetryBegin(c, j, MaxRetryRequests)
    \/ \E c \in Clients : RetryCommit(c)
    \/ \E c \in Clients, j \in JobIds : CancelBegin(c, j)
    \/ \E c \in Clients : CancelRunningCommit(c)
    \/ \E c \in Clients : CancelQueuedCommit(c)

\* Two workers, two concurrent handlers.
Spec == Init /\ [][Next]_vars

\* Workers keep running a task they took and take queued work; a handler that
\* has read the row goes on to its commit.  New requests are the users' choice.
FairSpec ==
    /\ Spec
    /\ \A w \in Workers : WF_vars(WorkerStep(w))
    /\ \A c \in Clients : WF_vars(CommitStep(c))

\* One handler at a time (client c1 alone, its responses observed), more retries.
SeqNext ==
    \/ \E j \in JobIds : SubmitYoutube(j)
    \/ \E j \in JobIds : UploadFile(j)
    \/ \E w \in Workers : WorkerStep(w)
    \/ \E w \in Workers : Raise(w)
    \/ OtherJobSweep
    \/ \E j \in JobIds : RetryBegin("c1", j, MaxSeqRetryRequests)
    \/ RetryCommit("c1")
    \/ \E j \in JobIds : CancelBegin("c1", j)
    \/ CancelRunningCommit("c1")
    \/ CancelQueuedCommit("c1")

SeqSpec == SeqInit /\ [][SeqNext]_vars

TypeOK ==
    /\ \A j \in JobIds :
         /\ jobs[j].row \in {"none", "present", "deleted"}
         /\ Exists(j) => jobs[j].status \in Statuses /\ jobs[j].progress \in 0..100
    /\ \A w \in Workers : workers[w].pc \in TryBody \cup {"idle", "except", "finally"}

\* ---- the retention sweep in detail (sweep view) ------------------------------
\* _maybe_run_retention_cleanup with its lock, its clock and its query, over a
\* table of several rows.  Time is in seconds and passes in steps of Ticks; an
\* age is now - created_at, kept up to MaxAgeSeconds.
SweepJobs == {"a", "b", "c"}

Ticks == {1800}

\* the Settings the runs are configured with
RetentionHoursChoices == {0, 1}
IntervalSecondsChoices == {30, 3600}
BatchSizeChoices == {1, 2}
JobTimeoutChoices == {1800, 3600}

InitialAges == {0, 3600}

Max(a, b) == IF a >= b THEN a ELSE b

IdleSweeper == [pc |-> "idle", stale_jobs |-> {}, elapsed |-> 0]

SweepBody == {"select", "delete", "normalize"}

SweepInit ==
    /\ table \in [SweepJobs -> [status : {"running", "done", "error", "cancelled"},
                                age : InitialAges]]
    /\ lock_ttl = 0
    /\ sweepers = [w \in Workers |-> IdleSweeper]
    /\ settings \in [job_retention_hours : RetentionHoursChoices,
                     retention_cleanup_interval_seconds : IntervalSecondsChoices,
                     retention_cleanup_batch_size : BatchSizeChoices,
                     job_timeout : JobTimeoutChoices]

\* ex=max(60, settings.retention_cleanup_interval_seconds)
LockLifetime == Max(60, settings.retention_cleanup_interval_seconds)

\* timedelta(hours=settings.job_retention_hours)
RetentionSeconds == settings.job_retention_hours * 3600

\* faulty variant of StaleFilter: the query forgets created_at < cutoff
StaleFilterAnyAge(j) == table[j].status \in {"done", "error"}

\* Job.created_at < cutoff, Job.status.in_(["done", "error"]), with
\* cutoff = now - retention: created_at < now - retention iff age > retention
StaleFilter(j) ==
    /\ table[j].status \in {"done", "error"}
    /\ table[j].age > RetentionSeconds

\* .limit(retention_cleanup_batch_size).all(): no ORDER BY, any such rows
StaleJobsResults ==
    LET matching == {j \in SweepJobs : StaleFilter(j)}
        n == Min(settings.retention_cleanup_batch_size, Cardinality(matching))
    IN  {S \in SUBSET matching : Cardinality(S) = n}

\* an attempt starts and calls the sweep: conn.set(lock_key, "1", nx=True, ex=...);
\* if not got_lock: return
AcquireLock(w) ==
    /\ sweepers[w].pc = "idle"
    /\ IF lock_ttl = 0
       THEN /\ lock_ttl' = LockLifetime
            /\ sweepers' = [sweepers EXCEPT ![w] = [IdleSweeper EXCEPT !.pc = "select"]]
       ELSE UNCHANGED <<lock_ttl, sweepers>>
    /\ UNCHANGED <<table, settings>>
    /\ UNCHANGED <<job_vars, response, files_vars, unit_vars>>

\* now, cutoff, and the query for stale_jobs
SelectStale(w) ==
    /\ sweepers[w].pc = "select"
    /\ \E S \in StaleJobsResults :
         sweepers' = [sweepers EXCEPT ![w].pc = "delete", ![w].stale_jobs = S]
    /\ UNCHANGED <<table, lock_ttl, settings>>
    /\ UNCHANGED <<job_vars, response, files_vars, unit_vars>>

\* for job in stale_jobs: db.delete(job); db.commit()
DeleteStale(w) ==
    /\ sweepers[w].pc = "delete"
    /\ table' = [j \in SweepJobs |->
                    IF j \in sweepers[w].stale_jobs
                    THEN [status |-> "deleted", age |-> 0] ELSE table[j]]
    /\ sweepers' = [sweepers EXCEPT ![w].pc = "normalize", ![w].stale_jobs = {}]
    /\ UNCHANGED <<lock_ttl, settings>>
    /\ UNCHANGED <<job_vars, response, files_vars, unit_vars>>

\* the scan that gives upload blobs without expiry a TTL, then return; the lock
\* key is left to expire
NormalizeBlobs(w) ==
    /\ sweepers[w].pc = "normalize"
    /\ sweepers' = [sweepers EXCEPT ![w] = IdleSweeper]
    /\ UNCHANGED <<table, lock_ttl, settings>>
    /\ UNCHANGED <<job_vars, response, files_vars, unit_vars>>

\* d seconds pass: rows age, the lock key runs down, and a task that has run
\* job_timeout seconds is stopped by the dispatcher
Tick(d) ==
    /\ table' = [j \in SweepJobs |->
                    IF table[j].status = "deleted" THEN table[j]
                    ELSE [table[j] EXCEPT !.age = Min(@ + d, MaxAgeSeconds)]]
    /\ lock_ttl' = Max(0, lock_ttl - d)
    /\ sweepers' = [w \in Workers |->
                       IF sweepers[w].pc \notin SweepBody THEN sweepers[w]
                       ELSE IF sweepers[w].elapsed + d >= settings.job_timeout THEN IdleSweeper
                       ELSE [sweepers[w] EXCEPT !.elapsed = @ + d]]
    /\ UNCHANGED settings
    /\ UNCHANGED <<job_vars, response, files_vars, unit_vars>>

SweepNext ==
    \/ \E w \in Workers : AcquireLock(w)
    \/ \E w \in Workers : SelectStale(w)
    \/ \E w \in Workers : DeleteStale(w)
    \/ \E w \in Workers : NormalizeBlobs(w)
    \/ \E d \in Ticks : Tick(d)

SweepViewInit ==
    /\ JobInit
    /\ response = Unobserved
    /\ FilesIdle
    /\ SweepInit
    /\ UnitIdle

SweepSpec == SweepViewInit /\ [][SweepNext]_vars

\* one configuration: a window of an hour, a lock lifetime and a job timeout of
\* an hour, batches of one
FairSweepInit ==
    /\ SweepViewInit
    /\ settings = [job_retention_hours |-> 1,
                   retention_cleanup_interval_seconds |-> 3600,
                   retention_cleanup_batch_size |-> 1,
                   job_timeout |-> 3600]

\* Time passes, attempts keep starting, and a sweep is not stopped by the job
\* timeout at the same step every time.
FairSweepSpec ==
    /\ FairSweepInit
    /\ [][SweepNext]_vars
    /\ \A d \in Ticks : WF_vars(Tick(d))
    /\ \A w \in Workers : WF_vars(AcquireLock(w))
    /\ \A w \in Workers :
         SF_vars(SelectStale(w)) /\ SF_vars(DeleteStale(w)) /\ SF_vars(NormalizeBlobs(w))

\* ---- scratch files and staged blobs (file view) ------------------------------
\* One job and one worker, followed through upload_file, process_upload /
\* process_youtube and transcribe_file at the grain of the files they create
\* and remove.  A resource is its kind (staged_file, staged_blob,
\* restored_file, youtube_audio, converted_mp3, chunk_file_i) and the attempt
\* that created it (0: the upload handler); disk holds the resources in existence on the worker's host
\* and in Redis.
Res(kind, n) == [kind |-> kind, owner |-> n]

ChunkFile(i) ==
    IF i = 1 THEN "chunk_file_1" ELSE IF i = 2 THEN "chunk_file_2" ELSE "chunk_file_3"

NoJobRow ==
    [row |-> "none", source_type |-> "none", status |-> "none", has_paths |-> FALSE,
     work_items |-> 0]

IdleAttempt ==
    [pc |-> "idle", n |-> 0, tmp_path |-> "none", redis_blob_key |-> FALSE,
     audio_path |-> FALSE, mp3 |-> FALSE, chunks |-> 0, next |-> 0]

FilesInit ==
    /\ disk = {}
    /\ jobrow = NoJobRow
    /\ attempt = IdleAttempt

FilesFrame == UNCHANGED <<job_vars, response, sweep_vars, unit_vars>>

\* upload_file: the body is written to tmp_path and appended to the Redis blob,
\* the row holds both in source_meta; the worker's host may or may not be the
\* host that holds tmp_path
StageUpload ==
    /\ jobrow.row = "none"
    /\ \E same_host \in BOOLEAN :
         disk' = disk \cup {Res("staged_blob", 0)}
                      \cup (IF same_host THEN {Res("staged_file", 0)} ELSE {})
    /\ jobrow' = [row |-> "present", source_type |-> "upload", status |-> "queued",
                  has_paths |-> TRUE, work_items |-> 1]
    /\ UNCHANGED attempt
    /\ FilesFrame

\* submit_youtube: source_meta = {"url": ...}
SubmitUrl ==
    /\ jobrow.row = "none"
    /\ jobrow' = [row |-> "present", source_type |-> "youtube", status |-> "queued",
                  has_paths |-> FALSE, work_items |-> 1]
    /\ UNCHANGED <<disk, attempt>>
    /\ FilesFrame

\* _update_job for the file view
WriteRow(fields) ==
    jobrow' = IF jobrow.row = "present" THEN Merge(jobrow, fields) ELSE jobrow

\* the worker takes a work item; the sweep; _update_job(status="running", progress=5)
StartAttempt ==
    /\ attempt.pc = "idle"
    /\ jobrow.work_items > 0
    /\ attempt.n < MaxFileAttempts
    /\ attempt' = [IdleAttempt EXCEPT !.pc = "load", !.n = attempt.n + 1]
    /\ jobrow' = [(IF jobrow.row = "present"
                   THEN Merge(jobrow, [status |-> "running"]) ELSE jobrow)
                     EXCEPT !.work_items = @ - 1]
    /\ UNCHANGED disk
    /\ FilesFrame

\* job = db.query(...).first(); if not job: return; tmp_path, redis_blob_key
LoadRow ==
    /\ attempt.pc = "load"
    /\ attempt' =
         IF jobrow.row # "present" THEN [attempt EXCEPT !.pc = "finally"]
         ELSE IF jobrow.source_type = "youtube" THEN [attempt EXCEPT !.pc = "captions"]
         ELSE [attempt EXCEPT !.pc = "resolve",
                              !.tmp_path = IF jobrow.has_paths THEN "staged_file" ELSE "none",
                              !.redis_blob_key = jobrow.has_paths]
    /\ UNCHANGED <<disk, jobrow>>
    /\ FilesFrame

\* process_upload 333-338 and _restore_upload_from_redis
ResolveInput ==
    /\ attempt.pc = "resolve"
    /\ LET exists == attempt.tmp_path = "staged_file" /\ Res("staged_file", 0) \in disk IN
       IF ~exists /\ attempt.redis_blob_key
       THEN IF Res("staged_blob", 0) \in disk
            THEN /\ disk' = disk \cup {Res("restored_file", 0)}
                 /\ attempt' = [attempt EXCEPT !.pc = "convert", !.tmp_path = "restored_file"]
            ELSE /\ attempt' = [attempt EXCEPT !.pc = "except"]
                 /\ UNCHANGED disk
       ELSE IF ~exists
       THEN /\ attempt' = [attempt EXCEPT !.pc = "except"]
            /\ UNCHANGED disk
       ELSE /\ attempt' = [attempt EXCEPT !.pc = "convert"]
            /\ UNCHANGED disk
    /\ UNCHANGED jobrow
    /\ FilesFrame

\* get_metadata, get_captions: with captions no file is made
LookupCaptions ==
    /\ attempt.pc = "captions"
    /\ \E outcome \in {"captions", "none", "raise"} :
         attempt' = [attempt EXCEPT !.pc = IF outcome = "captions" THEN "summarize"
                                           ELSE IF outcome = "none" THEN "download"
                                           ELSE "except"]
    /\ UNCHANGED <<disk, jobrow>>
    /\ FilesFrame

\* audio_path = yt_svc.download_audio(url): yt-dlp writes yt_<uuid>.*; a failed
\* or timed-out run may leave what it wrote, and audio_path stays None
DownloadAudio ==
    /\ attempt.pc = "download"
    /\ \E ok \in BOOLEAN, written \in BOOLEAN :
         /\ ok => written
         /\ disk' = IF written THEN disk \cup {Res("youtube_audio", attempt.n)} ELSE disk
         /\ attempt' = IF ok THEN [attempt EXCEPT !.pc = "convert", !.audio_path = TRUE]
                       ELSE [attempt EXCEPT !.pc = "except"]
    /\ UNCHANGED jobrow
    /\ FilesFrame

\* transcribe_file: mp3_path = _convert_to_mp3(file_path)
ConvertToMp3 ==
    /\ attempt.pc = "convert"
    /\ \E ok \in BOOLEAN :
         IF ok
         THEN /\ disk' = disk \cup {Res("converted_mp3", attempt.n)}
              /\ attempt' = [attempt EXCEPT !.pc = "split", !.mp3 = TRUE]
         ELSE /\ attempt' = [attempt EXCEPT !.pc = "except"]
              /\ UNCHANGED disk
    /\ UNCHANGED jobrow
    /\ FilesFrame

\* chunks = _split_audio(mp3_path, ...): [path] itself, or chunk files
SplitAudio ==
    /\ attempt.pc = "split"
    /\ \E n \in 1..MaxChunks :
         /\ disk' = IF n = 1 THEN disk
                    ELSE disk \cup {Res(ChunkFile(i), attempt.n) : i \in 1..n}
         /\ attempt' = [attempt EXCEPT !.pc = "chunk", !.chunks = n, !.next = 1]
    /\ UNCHANGED jobrow
    /\ FilesFrame

\* one turn of the loop of transcribe_file: the chunk is transcribed (retried
\* once) and, if it is not the mp3 itself, removed; a second failure propagates
TranscribeNextChunk ==
    /\ attempt.pc = "chunk"
    /\ \E ok \in BOOLEAN :
         IF ok
         THEN /\ disk' = IF attempt.chunks = 1 THEN disk
                         ELSE disk \ {Res(ChunkFile(attempt.next), attempt.n)}
              /\ attempt' = IF attempt.next < attempt.chunks
                            THEN [attempt EXCEPT !.next = @ + 1]
                            ELSE [attempt EXCEPT !.pc = "remove_mp3"]
         ELSE /\ attempt' = [attempt EXCEPT !.pc = "except"]
              /\ UNCHANGED disk
    /\ UNCHANGED jobrow
    /\ FilesFrame

\* if mp3_path != file_path: _safe_remove(mp3_path)
RemoveMp3 ==
    /\ attempt.pc = "remove_mp3"
    /\ disk' = disk \ {Res("converted_mp3", attempt.n)}
    /\ attempt' = [attempt EXCEPT !.pc = "summarize"]
    /\ UNCHANGED jobrow
    /\ FilesFrame

\* transcript saved, generate_summary, then the last write: for an upload
\* source_meta=clean_meta (filename and size_bytes only)
SummarizeAndFinish ==
    /\ attempt.pc = "summarize"
    /\ \E ok \in BOOLEAN :
         IF ok
         THEN /\ WriteRow(IF jobrow.source_type = "upload"
                          THEN [status |-> "done", has_paths |-> FALSE]
                          ELSE [status |-> "done"])
              /\ attempt' = [attempt EXCEPT !.pc = "finally"]
         ELSE /\ attempt' = [attempt EXCEPT !.pc = "except"]
              /\ UNCHANGED jobrow
    /\ UNCHANGED disk
    /\ FilesFrame

\* except Exception: _update_job(status="error", error=...)
HandleException ==
    /\ attempt.pc = "except"
    /\ WriteRow([status |-> "error"])
    /\ attempt' = [attempt EXCEPT !.pc = "finally"]
    /\ UNCHANGED disk
    /\ FilesFrame

\* finally of process_youtube: _safe_remove(audio_path); finally of
\* process_upload: the row is read again and the tmp_path and redis_blob_key
\* its source_meta holds now are removed
CleanupFinally ==
    /\ attempt.pc = "finally"
    /\ disk' =
         IF jobrow.source_type = "youtube"
         THEN IF attempt.audio_path THEN disk \ {Res("youtube_audio", attempt.n)} ELSE disk
         ELSE IF jobrow.row = "present" /\ jobrow.has_paths
         THEN disk \ {Res("staged_file", 0), Res("staged_blob", 0)}
         ELSE disk
    /\ attempt' = [IdleAttempt EXCEPT !.n = attempt.n]
    /\ UNCHANGED jobrow
    /\ FilesFrame

\* retry_job, with no other request in flight
RetryFailed ==
    /\ jobrow.row = "present" /\ jobrow.status = "error"
    /\ jobrow.work_items < MaxFileAttempts
    /\ jobrow' = [jobrow EXCEPT !.status = "queued", !.work_items = @ + 1]
    /\ UNCHANGED <<disk, attempt>>
    /\ FilesFrame

\* cancel_job, with no other request in flight; the work item stays queued
CancelJob ==
    /\ jobrow.row = "present" /\ jobrow.status \in {"queued", "running"}
    /\ jobrow' = [jobrow EXCEPT !.status = IF @ = "running" THEN "cancel_requested"
                                           ELSE "cancelled"]
    /\ UNCHANGED <<disk, attempt>>
    /\ FilesFrame

\* a retention sweep deletes the row
SweepDeletesRow ==
    /\ jobrow.row = "present" /\ jobrow.status \in {"done", "error"}
    /\ jobrow' = [NoJobRow EXCEPT !.row = "deleted", !.source_type = jobrow.source_type,
                                  !.work_items = jobrow.work_items]
    /\ UNCHANGED <<disk, attempt>>
    /\ FilesFrame

\* the blob's expiry (upload_blob_ttl_seconds) runs out
BlobExpires ==
    /\ Res("staged_blob", 0) \in disk
    /\ disk' = disk \ {Res("staged_blob", 0)}
    /\ UNCHANGED <<jobrow, attempt>>
    /\ FilesFrame

FilesNext ==
    \/ StageUpload
    \/ SubmitUrl
    \/ StartAttempt
    \/ LoadRow
    \/ ResolveInput
    \/ LookupCaptions
    \/ DownloadAudio
    \/ ConvertToMp3
    \/ SplitAudio
    \/ TranscribeNextChunk
    \/ RemoveMp3
    \/ SummarizeAndFinish
    \/ HandleException
    \/ CleanupFinally
    \/ RetryFailed
    \/ CancelJob
    \/ SweepDeletesRow
    \/ BlobExpires

FilesViewInit ==
    /\ JobInit
    /\ response = Unobserved
    /\ FilesInit
    /\ SweepIdle
    /\ UnitIdle

FilesSpec == FilesViewInit /\ [][FilesNext]_vars

\* ---- _classify_error (classification view) ----------------------------------
\* A failure message is a sequence of phrases; the phrases are the ones the
\* classifier looks for, their parts, and other text.  "x in low" is the
\* search for a run of phrases.
MaxMessageLen == 3

Phrases ==
    {"not a bot", "yt-dlp was blocked", "cookies", "audio duration",
     "maximum for this model", "rate limit", "429", "timeout", "timed out",
     "ffmpeg", "FFmpeg", "conversion failed", "invalid data"}

Messages == UNION {[1..n -> Phrases] : n \in 0..MaxMessageLen}

\* str.lower()
Lower(msg) == [i \in 1..Len(msg) |-> IF msg[i] = "FFmpeg" THEN "ffmpeg" ELSE msg[i]]

\* needle in text
Contains(text, needle) ==
    \E i \in 1..(Len(text) - Len(needle) + 1) :
        SubSeq(text, i, i + Len(needle) - 1) = needle

Classified(code, retryable) == [code |-> code, retryable |-> retryable]

\* the same cascade with the timeout branch returning retryable False
ClassifyTimeoutNotRetryable(msg) ==
    LET low == Lower(msg) IN
    IF Contains(low, <<"timeout">>) \/ Contains(low, <<"timed out">>)
    THEN Classified("upstream_timeout", FALSE)
    ELSE Classified("processing_failed", FALSE)

_classify_error(msg) ==
    LET low == Lower(msg) IN
    IF \/ Contains(low, <<"not a bot">>)
       \/ Contains(low, <<"yt-dlp was blocked">>)
       \/ Contains(low, <<"cookies">>)
    THEN Classified("youtube_auth_required", FALSE)
    ELSE IF Contains(low, <<"audio duration">>) /\ Contains(low, <<"maximum for this model">>)
    THEN Classified("audio_too_long_for_model", TRUE)
    ELSE IF Contains(low, <<"rate limit">>) \/ Contains(low, <<"429">>)
    THEN Classified("upstream_rate_limited", TRUE)
    ELSE IF Contains(low, <<"timeout">>) \/ Contains(low, <<"timed out">>)
    THEN Classified("upstream_timeout", TRUE)
    ELSE IF Contains(low, <<"ffmpeg", "conversion failed">>)
    THEN Classified("invalid_media_input", FALSE)
    ELSE Classified("processing_failed", FALSE)

\* an exception reaches the handler of an attempt
ClassifyInit ==
    call \in [fn : {"_classify_error"}, pc : {"called"}, arg : Messages, result : {"none"}]

ClassifyError ==
    /\ call.fn = "_classify_error"
    /\ call.pc = "called"
    /\ call' = [call EXCEPT !.pc = "returned", !.result = _classify_error(call.arg)]
    /\ UNCHANGED <<job_vars, response, files_vars, sweep_vars, run>>

ClassifyNext == ClassifyError

ClassifyViewInit ==
    /\ JobInit
    /\ response = Unobserved
    /\ FilesIdle
    /\ SweepIdle
    /\ run = "none"
    /\ ClassifyInit

ClassifySpec == ClassifyViewInit /\ [][ClassifyNext]_vars

\* ---- one youtube attempt (youtube view) ---------------------------------------
\* One job goes through submit_youtube and one attempt of process_youtube.
\* A URL is a sequence of parts; ID11 is a run of eleven id characters.  RQ
\* enforces job_timeout by raising JobTimeoutException, a subclass of Exception,
\* in the task at the call it is blocked in, once per attempt.
MaxUrlLen == 3

UrlParts == {"youtube.com/", "youtu.be/", "watch?v=", "embed/", "shorts/", "ID11", "example.org/"}

Urls == UNION {[1..n -> UrlParts] : n \in 0..MaxUrlLen}

\* "youtube.com" in body.url or "youtu.be" in body.url
AcceptedUrl(url) == Contains(url, <<"youtube.com/">>) \/ Contains(url, <<"youtu.be/">>)

\* extract_video_id finds an id: one of its three patterns matches
HasVideoId(url) ==
    \/ Contains(url, <<"watch?v=", "ID11">>)
    \/ Contains(url, <<"youtu.be/", "ID11">>)
    \/ Contains(url, <<"embed/", "ID11">>)
    \/ Contains(url, <<"shorts/", "ID11">>)

\* str(exc) of the failures the view raises
VideoIdMessage == <<"Cannot extract video ID">>
JobTimeoutMessage == <<"Task exceeded maximum", "timeout", "value">>
DownloadFailures == {<<"yt-dlp was blocked", "cookies">>, <<"yt-dlp download failed">>}
ProviderFailures == {<<"rate limit">>, <<"invalid data">>}

\* MAX_RETRIES of summarize.py
MAX_RETRIES == 2

YtRow(status, progress) ==
    [status |-> status, progress |-> progress, error |-> "null",
     transcript |-> "null", source_meta |-> "url"]

NoYtRow == [status |-> "none", progress |-> 0, error |-> "null",
            transcript |-> "null", source_meta |-> "none"]

YoutubeInit ==
    run \in [pc : {"unsubmitted"}, url : Urls, row : {NoYtRow}, alarm : {"off"},
             exc : {<<>>}, escaping : {FALSE}, captions : {"not_looked_up"},
             downloaded : {FALSE}, tsource : {"none"}, llm_failures : {0}]

YtFrame == UNCHANGED <<job_vars, response, files_vars, sweep_vars, call>>

YtWrite(fields) == Merge(run.row, fields)

\* the attempt raises exc at the step it is at
YtRaise(msg) == [run EXCEPT !.pc = "except", !.exc = msg]

\* POST /v1/youtube
YtSubmit ==
    /\ run.pc = "unsubmitted"
    /\ run' = IF AcceptedUrl(run.url)
              THEN [run EXCEPT !.pc = "queued", !.row = YtRow("queued", 0)]
              ELSE [run EXCEPT !.pc = "rejected"]
    /\ YtFrame

\* the worker takes the work item, RQ arms the timeout, status running
YtStart ==
    /\ run.pc = "queued"
    /\ run' = [run EXCEPT !.pc = "metadata", !.alarm = "armed",
                          !.row = YtWrite([status |-> "running", progress |-> 5])]
    /\ YtFrame

\* meta = get_metadata(url); _update_job(source_meta=meta.to_dict(), progress=10)
YtMetadata ==
    /\ run.pc = "metadata"
    /\ IF ~HasVideoId(run.url)
       THEN run' = YtRaise(VideoIdMessage)
       ELSE \E fetched \in BOOLEAN :
              run' = [run EXCEPT !.pc = "captions",
                        !.row = YtWrite([progress |-> 10,
                                         source_meta |-> IF fetched THEN "meta_filled"
                                                         ELSE "meta_empty"])]
    /\ YtFrame

\* captions.text.strip() of a result with only white space is empty
Strip(result) == IF result = "blank_text" THEN "" ELSE result

\* the same test without strip()
CaptionsUsableNoStrip(result) == result # "None" /\ result # ""

\* captions and captions.text.strip()
CaptionsUsable(result) == result # "None" /\ Strip(result) # ""

\* captions = get_captions(url, language) and the branch on it
YtCaptionsResult(result) ==
    IF CaptionsUsable(result)
    THEN [run EXCEPT !.pc = "save_transcript", !.captions = result,
                     !.tsource = "captions", !.row = YtWrite([progress |-> 30])]
    ELSE [run EXCEPT !.pc = "download", !.captions = result,
                     !.row = YtWrite([progress |-> 15])]

YtCaptions ==
    /\ run.pc = "captions"
    /\ \E result \in {"None", "", "blank_text", "text"} : run' = YtCaptionsResult(result)
    /\ YtFrame

\* audio_path = download_audio(url); progress 25
YtDownload ==
    /\ run.pc = "download"
    /\ \/ run' = [run EXCEPT !.pc = "transcribe", !.downloaded = TRUE,
                             !.row = YtWrite([progress |-> 25])]
       \/ \E msg \in DownloadFailures : run' = YtRaise(msg)
    /\ YtFrame

\* transcribe_file: the first try of a chunk; its failure is caught
YtTranscribe ==
    /\ run.pc = "transcribe"
    /\ \/ run' = [run EXCEPT !.pc = "save_transcript", !.tsource = "asr"]
       \/ run' = [run EXCEPT !.pc = "transcribe_retry"]
    /\ YtFrame

\* the retry in place; its failure leaves transcribe_file
YtTranscribeRetry ==
    /\ run.pc = "transcribe_retry"
    /\ \/ run' = [run EXCEPT !.pc = "save_transcript", !.tsource = "asr"]
       \/ \E msg \in ProviderFailures : run' = YtRaise(msg)
    /\ YtFrame

\* _update_job(transcript=transcript_data, progress=80)
YtSaveTranscript ==
    /\ run.pc = "save_transcript"
    /\ run' = [run EXCEPT !.pc = "summarize",
                          !.row = YtWrite([transcript |-> run.tsource, progress |-> 80])]
    /\ YtFrame

\* progress 85; generate_summary: _call_llm catches MAX_RETRIES failures
YtSummarize ==
    /\ run.pc = "summarize"
    /\ \/ run' = [run EXCEPT !.pc = "done_write", !.row = YtWrite([progress |-> 85])]
       \/ /\ run.llm_failures < MAX_RETRIES
          /\ run' = [run EXCEPT !.llm_failures = @ + 1, !.row = YtWrite([progress |-> 85])]
       \/ /\ run.llm_failures = MAX_RETRIES
          /\ \E msg \in ProviderFailures :
               run' = [YtRaise(msg) EXCEPT !.row = YtWrite([progress |-> 85])]
    /\ YtFrame

\* _update_job(summary=summary, status="done", progress=100)
YtDone ==
    /\ run.pc = "done_write"
    /\ run' = [run EXCEPT !.pc = "finally",
                          !.row = YtWrite([status |-> "done", progress |-> 100])]
    /\ YtFrame

\* except Exception as exc: _update_job(status="error", error=_job_error_payload(exc))
YtExcept ==
    /\ run.pc = "except"
    /\ run' = [run EXCEPT !.pc = "finally",
                          !.row = YtWrite([status |-> "error",
                                           error |-> _classify_error(run.exc)])]
    /\ YtFrame

\* finally: _safe_remove(audio_path); the task returns or the exception leaves it
YtFinally ==
    /\ run.pc = "finally"
    /\ run' = [run EXCEPT !.pc = IF run.escaping THEN "raised" ELSE "returned",
                          !.alarm = IF run.alarm = "armed" THEN "off" ELSE run.alarm]
    /\ YtFrame

\* job_timeout runs out while the attempt is in the call of its step.  Where
\* the call is inside a try that catches Exception the step goes on as after
\* any failure of that call; in the handler or in finally it leaves the task.
YtTimeout ==
    /\ run.alarm = "armed"
    /\ LET fired == [run EXCEPT !.alarm = "fired"]
           raised == [fired EXCEPT !.pc = "except", !.exc = JobTimeoutMessage]
       IN run' =
            CASE run.pc = "metadata" /\ HasVideoId(run.url) ->
                   [fired EXCEPT !.pc = "captions",
                                 !.row = YtWrite([progress |-> 10, source_meta |-> "meta_empty"])]
              [] run.pc = "metadata" /\ ~HasVideoId(run.url) -> raised
              [] run.pc = "captions" ->
                   [fired EXCEPT !.pc = "download", !.captions = "None",
                                 !.row = YtWrite([progress |-> 15])]
              [] run.pc = "transcribe" -> [fired EXCEPT !.pc = "transcribe_retry"]
              [] run.pc = "summarize" /\ run.llm_failures < MAX_RETRIES ->
                   [fired EXCEPT !.llm_failures = @ + 1, !.row = YtWrite([progress |-> 85])]
              [] run.pc \in {"except", "finally"} ->
                   [fired EXCEPT !.pc = "finally", !.escaping = TRUE]
              [] OTHER -> raised
    /\ YtFrame

YoutubeNext ==
    \/ YtSubmit
    \/ YtStart
    \/ YtMetadata
    \/ YtCaptions
    \/ YtDownload
    \/ YtTranscribe
    \/ YtTranscribeRetry
    \/ YtSaveTranscript
    \/ YtSummarize
    \/ YtDone
    \/ YtExcept
    \/ YtFinally
    \/ YtTimeout

YoutubeViewInit ==
    /\ JobInit
    /\ response = Unobserved
    /\ FilesIdle
    /\ SweepIdle
    /\ call = "none"
    /\ YoutubeInit

YoutubeSpec == YoutubeViewInit /\ [][YoutubeNext]_vars

\* ---- transcribe_file (transcription view) --------------------------------------
\* One call of transcribe_file on a file of `pieces` pieces of PieceSeconds
\* each.  A chunk is the set of pieces it holds; the text the provider returns
\* for a chunk is the sequence of its pieces; a response carries no segment or
\* one segment, whose start counts from the start of the chunk.
MaxPieces == 3
PieceSeconds == 2

\* the members of a set of pieces in ascending order
RECURSIVE Ascending(_)
Ascending(S) ==
    IF S = {} THEN <<>>
    ELSE LET lo == CHOOSE x \in S : \A y \in S : x <= y
         IN <<lo>> \o Ascending(S \ {lo})

\* _split_audio: [path] for a file under the limit; else one chunk per piece
\* that ffmpeg cut (a piece it failed to cut is logged and left out), and
\* [path] when none was cut
_split_audio(n, cut) ==
    IF n = 1 \/ cut = {} THEN <<1..n>>
    ELSE [i \in 1..Cardinality(cut) |-> {Ascending(cut)[i]}]

TranscribeInit ==
    run \in [pc : {"split"}, pieces : 1..MaxPieces, verbose_supported : BOOLEAN,
             chunks : {<<>>}, idx : {1}, calls : {<<>>}, requests : {<<>>},
             all_text : {<<>>}, all_segments : {<<>>}, time_offset : {0},
             status : {"running"}]

TfFrame == UNCHANGED <<job_vars, response, files_vars, sweep_vars, call>>

\* chunks = _split_audio(mp3_path, settings.max_audio_chunk_mb)
TfSplit ==
    /\ run.pc = "split"
    /\ \E cut \in SUBSET (1..run.pieces) :
         LET chunks == _split_audio(run.pieces, cut) IN
         run' = [run EXCEPT !.pc = "try", !.chunks = chunks,
                            !.calls = [i \in 1..Len(chunks) |-> 0],
                            !.requests = [i \in 1..Len(chunks) |-> 0]]
    /\ TfFrame

\* requests one call of _transcribe_chunk sends: verbose_json, and json after
\* the provider refused verbose_json
RequestsPerCall(verbose_supported) == IF verbose_supported THEN 1 ELSE 2

\* the start values of the segments a response may carry: none, or one
\* segment that starts inside the chunk
SegmentStarts(verbose_supported, chunk) ==
    IF verbose_supported
    THEN {<<>>} \cup {<<t>> : t \in 0..(PieceSeconds * Cardinality(chunk) - 1)}
    ELSE {<<>>}

\* _get_duration: ffprobe's figure, 0.0 when its output is not a number
Durations(chunk) == {0, PieceSeconds * Cardinality(chunk)}

Counted(r) ==
    [r EXCEPT !.calls[r.idx] = @ + 1,
              !.requests[r.idx] = @ + RequestsPerCall(r.verbose_supported)]

\* lines 161-189 for the response of chunk idx
Collected(r, starts, duration) ==
    [r EXCEPT !.all_text = @ \o Ascending(r.chunks[r.idx]),
              !.all_segments = @ \o [i \in 1..Len(starts) |-> starts[i] + r.time_offset],
              !.time_offset = @ + duration,
              !.idx = @ + 1,
              !.pc = IF r.idx = Len(r.chunks) THEN "return" ELSE "try"]

\* response = _transcribe_chunk(...): it answers, or raises into the retry
TfTry ==
    /\ run.pc = "try"
    /\ \/ \E starts \in SegmentStarts(run.verbose_supported, run.chunks[run.idx]),
             d \in Durations(run.chunks[run.idx]) :
               run' = Collected(Counted(run), starts, d)
       \/ run' = [Counted(run) EXCEPT !.pc = "retry"]
    /\ TfFrame

\* a retry that is itself retried
TfRetryAgain ==
    /\ run.pc = "retry"
    /\ \/ \E starts \in SegmentStarts(run.verbose_supported, run.chunks[run.idx]),
             d \in Durations(run.chunks[run.idx]) :
               run' = Collected(Counted(run), starts, d)
       \/ run' = Counted(run)
    /\ TfFrame

\* except Exception: audio_file.seek(0); response = _transcribe_chunk(...)
TfRetry ==
    /\ run.pc = "retry"
    /\ \/ \E starts \in SegmentStarts(run.verbose_supported, run.chunks[run.idx]),
             d \in Durations(run.chunks[run.idx]) :
               run' = Collected(Counted(run), starts, d)
       \/ run' = [Counted(run) EXCEPT !.pc = "raised"]
    /\ TfFrame

\* return TranscriptResult(text=full_text, segments=all_segments, ...)
TfReturn ==
    /\ run.pc = "return"
    /\ run' = [run EXCEPT !.pc = "returned"]
    /\ TfFrame

\* the caller's handler: status error
TfExcept ==
    /\ run.pc = "raised"
    /\ run' = [run EXCEPT !.pc = "failed", !.status = "error"]
    /\ TfFrame

TranscribeNext ==
    \/ TfSplit
    \/ TfTry
    \/ TfRetry
    \/ TfReturn
    \/ TfExcept

TranscribeViewInit ==
    /\ JobInit
    /\ response = Unobserved
    /\ FilesIdle
    /\ SweepIdle
    /\ call = "none"
    /\ TranscribeInit

TranscribeSpec == TranscribeViewInit /\ [][TranscribeNext]_vars

\* ---- _chunk_text (chunking view) ----------------------------------------------
\* A text is the sequence of its sentences, one blank between two of them; a
\* sentence is its length in characters, its closing mark included.
CHARS_PER_TOKEN == 4
MaxSentences == 4

SentenceLengths == {2, 3, 5, 9}
MaxTokensChoices == {2}

Texts == UNION {[1..n -> SentenceLengths] : n \in 1..MaxSentences}

RECURSIVE Sum(_)
Sum(seq) == IF seq = <<>> THEN 0 ELSE Head(seq) + Sum(Tail(seq))

\* len(" ".join(sentences))
JoinedLen(sentences) ==
    IF sentences = <<>> THEN 0 ELSE Sum(sentences) + Len(sentences) - 1

\* the for loop of _chunk_text from sentence i on
RECURSIVE ChunkLoop(_, _, _, _, _, _)
ChunkLoop(sentences, i, max_chars, chunks, current, current_len) ==
    IF i > Len(sentences)
    THEN IF current # <<>> THEN Append(chunks, current) ELSE chunks
    ELSE LET slen == sentences[i] IN
         IF current_len + slen > max_chars /\ current # <<>>
         THEN ChunkLoop(sentences, i + 1, max_chars, Append(chunks, current),
                        <<sentences[i]>>, slen)
         ELSE ChunkLoop(sentences, i + 1, max_chars, chunks,
                        Append(current, sentences[i]), current_len + slen)

\* a chunk is the sequence of the sentences joined into it
_chunk_text(sentences, max_tokens) ==
    LET max_chars == max_tokens * CHARS_PER_TOKEN IN
    IF JoinedLen(sentences) <= max_chars THEN <<sentences>>
    ELSE ChunkLoop(sentences, 1, max_chars, <<>>, <<>>, 0)

ChunkInit ==
    call \in [fn : {"_chunk_text"}, pc : {"called"}, arg : Texts,
              max_tokens : MaxTokensChoices, result : {<<>>}]

ChunkText ==
    /\ call.fn = "_chunk_text"
    /\ call.pc = "called"
    /\ call' = [call EXCEPT !.pc = "returned",
                            !.result = _chunk_text(call.arg, call.max_tokens)]
    /\ UNCHANGED <<job_vars, response, files_vars, sweep_vars, run>>

ChunkNext == ChunkText

ChunkViewInit ==
    /\ JobInit
    /\ response = Unobserved
    /\ FilesIdle
    /\ SweepIdle
    /\ run = "none"
    /\ ChunkInit

ChunkSpec == ChunkViewInit /\ [][ChunkNext]_vars

\* ---- generate_summary and _parse_json (summary view) ---------------------------
\* One call of generate_summary inside an attempt.  A provider response is
\* described by what each tier of _parse_json finds in it: whether the whole
\* text is JSON (an object, or another JSON value such as an array), whether
\* it holds a fenced block and whether a brace-delimited span, and for each
\* whether its content is an object; `fields` are the summary fields of the
\* object.  The budget of _chunk_text is scaled down to ScaledChunkTokens.
ScaledChunkTokens == 2

SummaryFields == {"tl_dr", "key_points", "outline", "action_items", "timestamps"}

FieldSets ==
    {{}, {"tl_dr"}, {"tl_dr", "key_points", "outline", "action_items"}, SummaryFields}

\* a text with a fenced block holds a brace span; a text that is JSON is
\* parsed before either is looked for
RawResponses ==
    {r \in [whole : {"object", "array", "invalid"},
            fenced : {"none", "object", "invalid"},
            braces : {"none", "object", "invalid"},
            fields : FieldSets] :
        /\ r.whole # "invalid" => (r.fenced = "none" /\ r.braces = "none")
        /\ r.fenced # "none" => r.braces # "none"}

\* a value of _parse_json: its kind (dict, list, or the JSONDecodeError that
\* json.loads raises inside the handler) and, for a dict, field -> where its
\* value is from
Parsed(kind, fields) ==
    [kind |-> kind,
     fields |-> [f \in SummaryFields |-> IF f \in fields THEN "provider" ELSE "absent"]]

ParsedObject(fields) == Parsed("dict", fields)

NoRaw == [whole |-> "none", fenced |-> "none", braces |-> "none", fields |-> {}]
NoSummary == Parsed("none", {})

_parse_json(raw) ==
    IF raw.whole = "object" THEN ParsedObject(raw.fields)
    ELSE IF raw.whole = "array" THEN Parsed("list", {})
    ELSE IF raw.fenced # "none"
    THEN IF raw.fenced = "object" THEN ParsedObject(raw.fields)
         ELSE Parsed("JSONDecodeError", {})
    ELSE IF raw.braces # "none"
    THEN IF raw.braces = "object" THEN ParsedObject(raw.fields)
         ELSE Parsed("JSONDecodeError", {})
    ELSE ParsedObject({})

\* summary.setdefault(...) for four of the five fields
SetDefaultsNoTimestamps(summary) ==
    [summary EXCEPT !.fields =
        [f \in SummaryFields |->
            IF summary.fields[f] = "absent" /\ f # "timestamps" THEN "empty"
            ELSE summary.fields[f]]]

\* summary.setdefault(...) for the five fields
SetDefaults(summary) ==
    [summary EXCEPT !.fields =
        [f \in SummaryFields |->
            IF summary.fields[f] = "absent" THEN "empty" ELSE summary.fields[f]]]

SummaryTexts == {t \in Texts : Len(t) <= 2}

\* segments the transcript may carry
MaxSegments == 4

SummaryInit ==
    call \in [fn : {"generate_summary"}, pc : {"called"}, text : SummaryTexts,
              n_segments : 0..MaxSegments, ts_pass : {"not_run"}, chunks : {0}, i : {0}, raw : {NoRaw},
              summary : {NoSummary}, status : {"running"}]

GsFrame == UNCHANGED <<job_vars, response, files_vars, sweep_vars, run>>

\* chunks = _chunk_text(text)
GsChunk ==
    /\ call.fn = "generate_summary"
    /\ call.pc = "called"
    /\ LET n == Len(_chunk_text(call.text, ScaledChunkTokens)) IN
       call' = [call EXCEPT !.chunks = n, !.pc = IF n = 1 THEN "synthesize" ELSE "map"]
    /\ GsFrame

\* raw = _call_llm(CHUNK_SYSTEM, ...); analysis = _parse_json(raw);
\* analysis["_chunk_index"] = i
GsMapChunk ==
    /\ call.fn = "generate_summary"
    /\ call.pc = "map"
    /\ \/ \E raw \in {r \in RawResponses : r.fields = {}} :
            LET analysis == _parse_json(raw) IN
            call' = IF analysis.kind \in {"JSONDecodeError", "list"}
                    THEN [call EXCEPT !.pc = "raised"]
                    ELSE [call EXCEPT !.i = @ + 1,
                                      !.pc = IF call.i + 1 = call.chunks THEN "synthesize"
                                             ELSE "map"]
       \/ call' = [call EXCEPT !.pc = "raised"]
    /\ GsFrame

\* raw = _call_llm(synthesis_system, ...); summary = _parse_json(raw)
GsSynthesize ==
    /\ call.fn = "generate_summary"
    /\ call.pc = "synthesize"
    /\ \/ \E raw \in RawResponses :
            LET summary == _parse_json(raw) IN
            call' = IF summary.kind = "JSONDecodeError"
                    THEN [call EXCEPT !.pc = "raised", !.raw = raw]
                    ELSE [call EXCEPT !.pc = "defaults", !.raw = raw, !.summary = summary]
       \/ call' = [call EXCEPT !.pc = "raised"]
    /\ GsFrame

\* the five setdefault calls; a list has no setdefault
GsDefaults ==
    /\ call.fn = "generate_summary"
    /\ call.pc = "defaults"
    /\ call' = IF call.summary.kind = "list"
               THEN [call EXCEPT !.pc = "raised"]
               ELSE [call EXCEPT !.pc = "timestamps", !.summary = SetDefaults(call.summary)]
    /\ GsFrame

\* what the timestamp pass can come to: a JSON list, another JSON value, text
\* json.loads rejects, or _call_llm raising after its retries
TimestampOutcomes == {"list", "non_list", "unparseable", "provider_error"}

\* the same pass without its try/except
AfterTimestampPassUncaught(c, outcome) ==
    IF outcome = "list"
    THEN [c EXCEPT !.pc = "returned", !.ts_pass = outcome,
                   !.summary.fields.timestamps = "extracted"]
    ELSE IF outcome = "non_list" THEN [c EXCEPT !.pc = "returned", !.ts_pass = outcome]
    ELSE [c EXCEPT !.pc = "raised", !.ts_pass = outcome]

\* lines 228-236: the list is stored; anything else is logged or ignored
AfterTimestampPass(c, outcome) ==
    IF outcome = "list"
    THEN [c EXCEPT !.pc = "returned", !.ts_pass = outcome,
                   !.summary.fields.timestamps = "extracted"]
    ELSE [c EXCEPT !.pc = "returned", !.ts_pass = outcome]

\* if segments and len(segments) > 3: the timestamp pass; return summary
GsTimestamps ==
    /\ call.fn = "generate_summary"
    /\ call.pc = "timestamps"
    /\ IF call.n_segments > 3
       THEN \E outcome \in TimestampOutcomes : call' = AfterTimestampPass(call, outcome)
       ELSE call' = [call EXCEPT !.pc = "returned"]
    /\ GsFrame

\* _update_job(summary=summary, status="done", progress=100)
GsDone ==
    /\ call.fn = "generate_summary"
    /\ call.pc = "returned"
    /\ call' = [call EXCEPT !.pc = "finished", !.status = "done"]
    /\ GsFrame

\* except Exception as exc: status error
GsExcept ==
    /\ call.fn = "generate_summary"
    /\ call.pc = "raised"
    /\ call' = [call EXCEPT !.pc = "finished", !.status = "error"]
    /\ GsFrame

SummaryNext ==
    \/ GsChunk
    \/ GsMapChunk
    \/ GsSynthesize
    \/ GsDefaults
    \/ GsTimestamps
    \/ GsDone
    \/ GsExcept

SummaryViewInit ==
    /\ JobInit
    /\ response = Unobserved
    /\ FilesIdle
    /\ SweepIdle
    /\ run = "none"
    /\ SummaryInit

SummarySpec == SummaryViewInit /\ [][SummaryNext]_vars

\* ---- transcript provenance (segment fallback view) ---------------------------
\* One attempt from the transcription result to the saved transcript. A list
\* of segments is its length; a text is the number of its sentences.
MaxProviderSegments == 2
MaxTextSentences == 7
MaxDurationSeconds == 2

\* len(groups) of _estimate_segments_from_text for a text of n sentences
_estimate_segments_from_text(n, duration_seconds) ==
    IF n = 0 \/ duration_seconds <= 0 THEN 0
    ELSE LET by_three == n \div 3
             segment_count == IF by_three > 6
                              THEN (IF by_three < 40 THEN by_three ELSE 40)
                              ELSE 6
             ceil == (n + segment_count - 1) \div segment_count
             step == IF ceil > 1 THEN ceil ELSE 1
         IN  (n + step - 1) \div step

\* _get_duration: ffprobe's number, 0.0 for output that is no number, or
\* subprocess.TimeoutExpired after 30 seconds
DurationProbes == [raises : BOOLEAN, seconds : 0..MaxDurationSeconds]

EsInit ==
    run \in [pc : {"transcribed"},
             path : {"upload", "youtube_asr", "youtube_captions"},
             provider_segments : 0..MaxProviderSegments,
             sentences : 0..MaxTextSentences,
             probe : DurationProbes,
             segments : {0}, source : {"unset"}, synthesized : {FALSE},
             persisted : {FALSE}, status : {"running"}]

EsFrame == UNCHANGED <<job_vars, response, files_vars, sweep_vars, call>>

\* transcript_data = {text, segments, language, source}
EsTranscriptData ==
    /\ run.pc = "transcribed"
    /\ run' = [run EXCEPT !.pc = IF run.path = "upload" THEN "fallback" ELSE "save",
                          !.segments = run.provider_segments,
                          !.source = IF run.path = "youtube_captions"
                                     THEN "captions" ELSE "asr"]
    /\ EsFrame

\* if not transcript_data.get("segments"): estimate from text and duration
EsFallback ==
    /\ run.pc = "fallback"
    /\ IF run.segments # 0 THEN run' = [run EXCEPT !.pc = "save"]
       ELSE IF run.probe.raises THEN run' = [run EXCEPT !.pc = "raised"]
       ELSE LET estimated == _estimate_segments_from_text(run.sentences, run.probe.seconds)
            IN  IF estimated # 0
                THEN run' = [run EXCEPT !.pc = "save", !.segments = estimated,
                                        !.source = "asr_estimated_segments",
                                        !.synthesized = TRUE]
                ELSE run' = [run EXCEPT !.pc = "save"]
    /\ EsFrame

\* _update_job(job_id, transcript=transcript_data, progress=80)
EsSave ==
    /\ run.pc = "save"
    /\ run' = [run EXCEPT !.pc = "finished", !.persisted = TRUE]
    /\ EsFrame

\* except Exception: status error, no transcript written
EsExcept ==
    /\ run.pc = "raised"
    /\ run' = [run EXCEPT !.pc = "finished", !.status = "error"]
    /\ EsFrame

EsNext ==
    \/ EsTranscriptData
    \/ EsFallback
    \/ EsSave
    \/ EsExcept

EsViewInit ==
    /\ JobInit
    /\ response = Unobserved
    /\ FilesIdle
    /\ SweepIdle
    /\ call = "none"
    /\ EsInit

EstimateSpec == EsViewInit /\ [][EsNext]_vars

\* ---- _seconds_to_hms (formatting view) ---------------------------------------
\* A string is the sequence of its characters.
MaxSeconds == 4000
HundredHours == 360000

DigitChars == <<"0", "1", "2", "3", "4", "5", "6", "7", "8", "9">>

RECURSIVE Decimal(_)
\* str(n) for n >= 0
Decimal(n) ==
    IF n < 10 THEN <<DigitChars[n + 1]>>
    ELSE Decimal(n \div 10) \o <<DigitChars[(n % 10) + 1]>>

\* f"{n:02d}": at least two digits, zeros to the left
Pad2(n) == IF n < 10 THEN <<"0">> \o Decimal(n) ELSE Decimal(n)

\* the same with the minutes taken from the whole number of seconds
HmsMinutesNotReduced(seconds) ==
    LET s == seconds
        h == s \div 3600
        m == s \div 60
        sec == s % 60
    IN  Pad2(h) \o <<":">> \o Pad2(m) \o <<":">> \o Pad2(sec)

_seconds_to_hms(seconds) ==
    LET s == seconds
        h == s \div 3600
        m == (s % 3600) \div 60
        sec == s % 60
    IN  Pad2(h) \o <<":">> \o Pad2(m) \o <<":">> \o Pad2(sec)

HmsInit ==
    call \in [fn : {"_seconds_to_hms"}, pc : {"called"},
              arg : (0..MaxSeconds) \cup (HundredHours..(HundredHours + MaxSeconds)),
              result : {<<>>}]

SecondsToHms ==
    /\ call.fn = "_seconds_to_hms"
    /\ call.pc = "called"
    /\ call' = [call EXCEPT !.pc = "returned", !.result = _seconds_to_hms(call.arg)]
    /\ UNCHANGED <<job_vars, response, files_vars, sweep_vars, run>>

HmsNext == SecondsToHms

HmsViewInit ==
    /\ JobInit
    /\ response = Unobserved
    /\ FilesIdle
    /\ SweepIdle
    /\ run = "none"
    /\ HmsInit

HmsSpec == HmsViewInit /\ [][HmsNext]_vars

\* ---- _split_audio sizing (segment length view) -------------------------------
\* Sizes and durations in whole units; the quotient max_bytes / bytes_per_sec
\* * 0.9 is taken exactly, as the integer part of 9 * max_bytes * duration /
\* (10 * file_size).
MaxCeilingBytes == 3
MaxFileBytes == 6
MaxAudioSeconds == 200
MinSegmentSecs == 60

\* segment_secs = max(int(max_bytes / (file_size / duration) * 0.9), 60)
SegmentSecs(max_bytes, file_size, duration) ==
    LET fitted == (9 * max_bytes * duration) \div (10 * file_size)
    IN  IF fitted > MinSegmentSecs THEN fitted ELSE MinSegmentSecs

SizingInit ==
    call \in [fn : {"_split_audio"}, pc : {"called"},
              max_bytes : 1..MaxCeilingBytes,
              file_size : 1..MaxFileBytes,
              duration : 0..MaxAudioSeconds,
              whole : {TRUE}, segment_secs : {0}, num_chunks : {1}]

\* the file itself when it fits or has no known duration, else
\* ceil(duration / segment_secs) cuts of segment_secs seconds
SplitSizing ==
    /\ call.fn = "_split_audio"
    /\ call.pc = "called"
    /\ IF call.file_size <= call.max_bytes \/ call.duration <= 0
       THEN call' = [call EXCEPT !.pc = "returned"]
       ELSE LET secs == SegmentSecs(call.max_bytes, call.file_size, call.duration)
            IN  call' = [call EXCEPT !.pc = "returned", !.whole = FALSE,
                                     !.segment_secs = secs,
                                     !.num_chunks = (call.duration + secs - 1) \div secs]
    /\ UNCHANGED <<job_vars, response, files_vars, sweep_vars, run>>

SizingNext == SplitSizing

SizingViewInit ==
    /\ JobInit
    /\ response = Unobserved
    /\ FilesIdle
    /\ SweepIdle
    /\ run = "none"
    /\ SizingInit

SizingSpec == SizingViewInit /\ [][SizingNext]_vars

\* ---- the sweep against a retry (race view) -----------------------------------
\* The sweep's query and its commit are two statements of one session; retry_job
\* reads and commits in another. A row is its existence, its status and whether
\* its created_at is behind the cutoff.
RaceJobs == {"a", "b"}

RaceInit ==
    run \in [table : [RaceJobs -> [row : {"present"}, status : {"done", "error"},
                                   old : BOOLEAN]],
             sweep : [pc : {"select"}, stale_jobs : {{}}],
             retry : [pc : {"idle"}, job : {"none"}],
             pending : {{}}]

RcFrame == UNCHANGED <<job_vars, response, files_vars, sweep_vars, call>>

\* db.query(Job).filter(created_at < cutoff, status in (done, error)).all()
RcSelect ==
    /\ run.sweep.pc = "select"
    /\ run' = [run EXCEPT !.sweep =
                  [pc |-> "delete",
                   stale_jobs |-> {j \in RaceJobs :
                                     /\ run.table[j].row = "present"
                                     /\ run.table[j].status \in {"done", "error"}
                                     /\ run.table[j].old}]]
    /\ RcFrame

\* for job in stale_jobs: db.delete(job); db.commit(): DELETE ... WHERE id = ?
RcDeletedRows == run.sweep.stale_jobs

RcDelete ==
    /\ run.sweep.pc = "delete"
    /\ run' = [run EXCEPT !.sweep = [pc |-> "returned", stale_jobs |-> {}],
                          !.table = [j \in RaceJobs |->
                                        IF j \in RcDeletedRows
                                        THEN [run.table[j] EXCEPT !.row = "deleted"]
                                        ELSE run.table[j]]]
    /\ RcFrame

\* retry_job up to its status test: 404 / 409 leave the handler
RcRetryRead(j) ==
    /\ run.retry.pc = "idle"
    /\ run.table[j].row = "present"
    /\ run.table[j].status = "error"
    /\ run' = [run EXCEPT !.retry = [pc |-> "commit", job |-> j]]
    /\ RcFrame

\* job.status = "queued"; db.commit(); enqueue_task(...): the UPDATE of a row
\* that is gone fails and nothing is enqueued
RcRetryCommit ==
    /\ run.retry.pc = "commit"
    /\ LET j == run.retry.job IN
       IF run.table[j].row = "present"
       THEN run' = [run EXCEPT !.retry = [pc |-> "idle", job |-> "none"],
                               !.table[j].status = "queued",
                               !.pending = @ \cup {j}]
       ELSE run' = [run EXCEPT !.retry = [pc |-> "idle", job |-> "none"]]
    /\ RcFrame

\* a worker takes the work item: _update_job(job_id, status="running")
RcStart(j) ==
    /\ j \in run.pending
    /\ run' = [run EXCEPT !.pending = @ \ {j},
                          !.table[j].status =
                              IF run.table[j].row = "present" THEN "running" ELSE @]
    /\ RcFrame

\* the attempt ends: done, or error
RcEnd(j) ==
    /\ run.table[j].row = "present"
    /\ run.table[j].status = "running"
    /\ \E status \in {"done", "error"} : run' = [run EXCEPT !.table[j].status = status]
    /\ RcFrame

RaceNext ==
    \/ RcSelect
    \/ RcDelete
    \/ \E j \in RaceJobs : RcRetryRead(j)
    \/ RcRetryCommit
    \/ \E j \in RaceJobs : RcStart(j)
    \/ \E j \in RaceJobs : RcEnd(j)

RaceViewInit ==
    /\ JobInit
    /\ response = Unobserved
    /\ FilesIdle
    /\ SweepIdle
    /\ call = "none"
    /\ RaceInit

RaceSpec == RaceViewInit /\ [][RaceNext]_vars

\* ---- commit, then enqueue (enqueue view) -------------------------------------
\* submit_youtube, upload_file and retry_job commit the row and then call the
\* queue; the call to Redis can raise. One handler and one worker at a time.
EnqJobs == {"a", "b"}

NoHandler == [pc |-> "idle", job |-> "none"]
NoWorker == [pc |-> "idle", job |-> "none"]

EnqInit ==
    run = [rows |-> [j \in EnqJobs |-> [status |-> "none", source_type |-> "none"]],
           pending |-> [j \in EnqJobs |-> 0],
           handler |-> NoHandler,
           worker |-> NoWorker]

EqFrame == UNCHANGED <<job_vars, response, files_vars, sweep_vars, call>>

\* db.add(job); db.commit(); db.refresh(job): the row is there, status queued
EqSubmitCommit(j, source_type) ==
    /\ run.handler.pc = "idle"
    /\ run.rows[j].status = "none"
    /\ run' = [run EXCEPT !.rows[j] = [status |-> "queued", source_type |-> source_type],
                          !.handler = [pc |-> "enqueue", job |-> j]]
    /\ EqFrame

\* retry_job: job.status = "queued"; db.commit()
EqRetryCommit(j) ==
    /\ run.handler.pc = "idle"
    /\ run.rows[j].status = "error"
    /\ run' = [run EXCEPT !.rows[j].status = "queued",
                          !.handler = [pc |-> "enqueue", job |-> j]]
    /\ EqFrame

\* what is left of the row when q.enqueue raises: the handler has no except
EqEnqueueFailure(j) == run.rows

\* q.enqueue(...) / enqueue_task(...): the work item is pushed, or Redis raises
\* and the request is answered 500
EqEnqueue ==
    /\ run.handler.pc = "enqueue"
    /\ LET j == run.handler.job IN
       \E pushed \in BOOLEAN :
         IF pushed
         THEN run' = [run EXCEPT !.pending[j] = @ + 1, !.handler = NoHandler]
         ELSE run' = [run EXCEPT !.rows = EqEnqueueFailure(j), !.handler = NoHandler]
    /\ EqFrame

\* the RQ worker takes the work item
EqPickup(j) ==
    /\ run.worker.pc = "idle"
    /\ run.pending[j] > 0
    /\ run' = [run EXCEPT !.pending[j] = @ - 1, !.worker = [pc |-> "start", job |-> j]]
    /\ EqFrame

\* _update_job(job_id, status="running", progress=5)
EqStart ==
    /\ run.worker.pc = "start"
    /\ run' = [run EXCEPT !.rows[run.worker.job].status = "running",
                          !.worker.pc = "body"]
    /\ EqFrame

\* the attempt ends: status done, or error from the except handler
EqEnd ==
    /\ run.worker.pc = "body"
    /\ \E status \in {"done", "error"} :
         run' = [run EXCEPT !.rows[run.worker.job].status = status, !.worker = NoWorker]
    /\ EqFrame

EnqNext ==
    \/ \E j \in EnqJobs, source_type \in SourceTypes : EqSubmitCommit(j, source_type)
    \/ \E j \in EnqJobs : EqRetryCommit(j)
    \/ EqEnqueue
    \/ \E j \in EnqJobs : EqPickup(j)
    \/ EqStart
    \/ EqEnd

EnqViewInit ==
    /\ JobInit
    /\ response = Unobserved
    /\ FilesIdle
    /\ SweepIdle
    /\ call = "none"
    /\ EnqInit

EnqueueSpec == EnqViewInit /\ [][EnqNext]_vars

\* ---- rate_limit (limiter view) -----------------------------------------------
\* _dep reads time.time() and builds its key before it takes _LOCK; the purge,
\* the test and the append are one step under the lock. Threads of the server's
\* pool run _dep side by side; the clock is in whole seconds.
LimiterLimit == 2
LimiterWindow == 2
MaxClock == 4
MaxLimiterRequests == 4

LimiterKeys == {"submit:ip1", "retry:ip1"}
LimiterThreads == {"t1", "t2"}

IdleThread == [pc |-> "idle", key |-> "none", now |-> 0, answer |-> 0]

LimiterInit ==
    run = [clock |-> 0,
           buckets |-> [k \in LimiterKeys |-> <<>>],
           threads |-> [t \in LimiterThreads |-> IdleThread],
           accepted |-> [k \in LimiterKeys |-> <<>>],
           made |-> 0]

LmFrame == UNCHANGED <<job_vars, response, files_vars, sweep_vars, call>>

\* a second passes
LmTick ==
    /\ run.clock < MaxClock
    /\ run' = [run EXCEPT !.clock = @ + 1]
    /\ LmFrame

\* key = f"{scope}:{ip}"; now = time.time(); cutoff = now - window_seconds
LmRead(t, k) ==
    /\ run.threads[t].pc = "idle"
    /\ run.made < MaxLimiterRequests
    /\ run' = [run EXCEPT !.threads[t] = [pc |-> "lock", key |-> k, now |-> run.clock,
                                          answer |-> 0],
                          !.made = @ + 1]
    /\ LmFrame

RECURSIVE Purged(_, _)
\* while q and q[0] < cutoff: q.popleft()
Purged(q, cutoff) ==
    IF q # <<>> /\ Head(q) < cutoff THEN Purged(Tail(q), cutoff) ELSE q

\* with _LOCK: purge; 429 if len(q) >= limit; else q.append(now)
LmLocked(t) ==
    /\ run.threads[t].pc = "lock"
    /\ LET k == run.threads[t].key
           now == run.threads[t].now
           q == Purged(run.buckets[k], now - LimiterWindow)
       IN  IF Len(q) >= LimiterLimit
           THEN run' = [run EXCEPT !.buckets[k] = q,
                                   !.threads[t] = [IdleThread EXCEPT !.answer = 429]]
           ELSE run' = [run EXCEPT !.buckets[k] = Append(q, now),
                                   !.accepted[k] = Append(@, now),
                                   !.threads[t] = [IdleThread EXCEPT !.answer = 200]]
    /\ LmFrame

LimiterNext ==
    \/ LmTick
    \/ \E t \in LimiterThreads, k \in LimiterKeys : LmRead(t, k)
    \/ \E t \in LimiterThreads : LmLocked(t)

LimiterViewInit ==
    /\ JobInit
    /\ response = Unobserved
    /\ FilesIdle
    /\ SweepIdle
    /\ call = "none"
    /\ LimiterInit

LimiterSpec == LimiterViewInit /\ [][LimiterNext]_vars

\* ---- upload_file's size limit (upload view) ----------------------------------
\* The body is read in blocks of ReadBlock bytes and written to tmp_path and to
\* the Redis blob block by block; a file is its length.
MaxUploadBytes == 8
MaxCeilingChoices == 4
ReadBlock == 2

NoStaged == [exists |-> FALSE, bytes |-> 0]

UploadInit ==
    run \in [pc : {"validated"}, file_size : 0..MaxUploadBytes,
             max_bytes : 1..MaxCeilingChoices,
             size : {0}, tmp_file : {NoStaged}, blob : {NoStaged},
             row : {FALSE}, work_items : {0}, answer : {0}]

UpFrame == UNCHANGED <<job_vars, response, files_vars, sweep_vars, call>>

\* redis_conn.delete(redis_blob_key); open(tmp_path, "wb")
UpOpen ==
    /\ run.pc = "validated"
    /\ run' = [run EXCEPT !.pc = "read", !.tmp_file = [exists |-> TRUE, bytes |-> 0]]
    /\ UpFrame

\* the oversize branch without the delete of the blob
OversizeBlobKept(r) ==
    [r EXCEPT !.pc = "returned", !.answer = 413, !.tmp_file = NoStaged]

\* f.close(); os.unlink(tmp_path); redis_conn.delete(redis_blob_key); 413
Oversize(r) ==
    [r EXCEPT !.pc = "returned", !.answer = 413, !.tmp_file = NoStaged, !.blob = NoStaged]

\* one turn of `while chunk := file.file.read(1024 * 1024)`; an empty read ends
\* the loop, and the blob gets its expiry
UpReadChunk ==
    /\ run.pc = "read"
    /\ LET left == run.file_size - run.tmp_file.bytes
           chunk == IF left < ReadBlock THEN left ELSE ReadBlock
           counted == [run EXCEPT !.size = @ + chunk]
       IN  IF chunk = 0 THEN run' = [run EXCEPT !.pc = "commit"]
           ELSE IF counted.size > run.max_bytes THEN run' = Oversize(counted)
           ELSE run' = [counted EXCEPT !.tmp_file.bytes = @ + chunk,
                                       !.blob = [exists |-> TRUE,
                                                 bytes |-> run.blob.bytes + chunk]]
    /\ UpFrame

\* db.add(job); db.commit(); db.refresh(job)
UpCommit ==
    /\ run.pc = "commit"
    /\ run' = [run EXCEPT !.pc = "enqueue", !.row = TRUE]
    /\ UpFrame

\* enqueue_task("app.workers.tasks.process_upload", str(job.id)); return
UpEnqueue ==
    /\ run.pc = "enqueue"
    /\ run' = [run EXCEPT !.pc = "returned", !.work_items = @ + 1, !.answer = 200]
    /\ UpFrame

UploadNext ==
    \/ UpOpen
    \/ UpReadChunk
    \/ UpCommit
    \/ UpEnqueue

UploadViewInit ==
    /\ JobInit
    /\ response = Unobserved
    /\ FilesIdle
    /\ SweepIdle
    /\ call = "none"
    /\ UploadInit

UploadSpec == UploadViewInit /\ [][UploadNext]_vars

\* ---- ownership of a job (two-world view) -------------------------------------
\* The same requests are served in two worlds that differ only in whether the
\* job id names a job of principal "other": in "absent" no row has that id, in
\* "present" one does. "p" owns no job.
Worlds == {"absent", "present"}
Principals == {"p", "other"}
JobOps == {"status", "result", "retry", "cancel"}
MaxOwnerRequests == 3

AbsentJob == [exists |-> FALSE, owner |-> "none", status |-> "none", progress |-> 0,
              error |-> NoError, work_items |-> 0]

NoAnswer == [code |-> 0, detail |-> "none"]

NotFound == [code |-> 404, detail |-> "Job not found"]

OwnInit ==
    \E status \in Statuses, progress \in {0, 50} :
      run = [world |-> [w \in Worlds |->
                          IF w = "absent" THEN AbsentJob
                          ELSE [exists |-> TRUE, owner |-> "other", status |-> status,
                                progress |-> progress,
                                error |-> IF status = "error" THEN "processing_failed"
                                          ELSE NoError,
                                work_items |-> IF status = "queued" THEN 1 ELSE 0]],
             before |-> [w \in Worlds |-> AbsentJob],
             last |-> [principal |-> "none", op |-> "none"],
             answer |-> [w \in Worlds |-> NoAnswer],
             requests |-> 0]

OwnFrame == UNCHANGED <<job_vars, response, files_vars, sweep_vars, call>>

\* the same query without the test of the owner
FoundAnyOwner(job, user) == job.exists

\* db.query(Job).filter(Job.id == job_id, Job.user_id == user.id).first()
Found(job, user) == job.exists /\ job.owner = user

\* the handler of op for user on the row with the requested id: its answer and
\* the row it leaves
Handled(op, job, user) ==
    IF ~Found(job, user) THEN [answer |-> NotFound, job |-> job]
    ELSE IF op = "status"
    THEN [answer |-> [code |-> 200, detail |-> job.status], job |-> job]
    ELSE IF op = "result"
    THEN [answer |-> IF job.status = "error" THEN [code |-> 422, detail |-> job.error]
                     ELSE IF job.status # "done"
                     THEN [code |-> 409, detail |-> "Job not done yet"]
                     ELSE [code |-> 200, detail |-> "result"],
          job |-> job]
    ELSE IF op = "retry"
    THEN IF job.status # "error"
         THEN [answer |-> [code |-> 409, detail |-> "Only failed jobs can be retried"],
               job |-> job]
         ELSE [answer |-> [code |-> 200, detail |-> "queued"],
               job |-> [job EXCEPT !.status = "queued", !.progress = 0, !.error = NoError,
                                   !.work_items = @ + 1]]
    ELSE IF job.status \in {"done", "error", "cancelled"}
    THEN [answer |-> [code |-> 409, detail |-> "Cannot cancel job in status"], job |-> job]
    ELSE IF job.status = "running"
    THEN [answer |-> [code |-> 200, detail |-> "cancel_requested"],
          job |-> [job EXCEPT !.status = "cancel_requested"]]
    ELSE [answer |-> [code |-> 200, detail |-> "cancelled"],
          job |-> [job EXCEPT !.status = "cancelled", !.progress = 0,
                              !.error = CancelledPayload]]

\* one request, served in both worlds
OwnRequest(user, op) ==
    /\ run.requests < MaxOwnerRequests
    /\ run' = [run EXCEPT
                 !.before = run.world,
                 !.world = [w \in Worlds |-> Handled(op, run.world[w], user).job],
                 !.answer = [w \in Worlds |-> Handled(op, run.world[w], user).answer],
                 !.last = [principal |-> user, op |-> op],
                 !.requests = @ + 1]
    /\ OwnFrame

\* the owner's job moves on in the worker: taken, then done or error
OwnWorker ==
    /\ run.world["present"].exists
    /\ \/ /\ run.world["present"].work_items > 0
          /\ run' = [run EXCEPT !.world["present"].work_items = @ - 1,
                                !.world["present"].status = "running",
                                !.last = [principal |-> "none", op |-> "none"]]
       \/ /\ run.world["present"].status = "running"
          /\ \E status \in {"done", "error"} :
               run' = [run EXCEPT !.world["present"].status = status,
                                  !.world["present"].progress =
                                      IF status = "done" THEN 100 ELSE @,
                                  !.world["present"].error =
                                      IF status = "error" THEN "upstream_timeout" ELSE @,
                                  !.last = [principal |-> "none", op |-> "none"]]
    /\ OwnFrame

OwnNext ==
    \/ \E user \in Principals, op \in JobOps : OwnRequest(user, op)
    \/ OwnWorker

OwnViewInit ==
    /\ JobInit
    /\ response = Unobserved
    /\ FilesIdle
    /\ SweepIdle
    /\ call = "none"
    /\ OwnInit

OwnershipSpec == OwnViewInit /\ [][OwnNext]_vars

\* ---- properties -------------------------------------------------------------
StatusOf(j) == jobs[j].status

Attempting(w) == workers[w].pc \in (TryBody \ {"sweep", "mark_running"})

\* C1 as stated: in every reachable state a job's error field is non-null if
\* and only if its status is error.
C1_ErrorIffStatusError ==
    \A j \in JobIds : Exists(j) => ((jobs[j].error # NoError) <=> (StatusOf(j) = "error"))

\* C1 amended: in every reachable state a job whose status is error has a
\* non-null error field.
C1_StatusErrorHasPayload ==
    \A j \in JobIds : (Exists(j) /\ StatusOf(j) = "error") => jobs[j].error # NoError

\* an attempt has ended in error after an earlier retry cleared the payload
C1_Witness ==
    \E j \in JobIds :
        /\ Exists(j) /\ StatusOf(j) = "error" /\ jobs[j].error \in RaisedCodes
        /\ accepted_retries[j] > 0

\* C2: when a cancel request that read status queued commits, the job's
\* pending work item is gone from the queue and the status is cancelled (so
\* that no worker ever starts an attempt for it).
C2_CancelQueuedRemovesWork ==
    [][\A c \in Clients :
         (/\ reqs[c].pc = "cancel_queued_commit"
          /\ reqs[c].seen = "queued"
          /\ reqs'[c].pc = "idle"
          /\ Exists(reqs[c].job))
         => /\ \A i \in 1..Len(queue') : queue'[i].job # reqs[c].job
            /\ jobs'[reqs[c].job].status = "cancelled"]_vars

\* C3: a job in status cancel_requested eventually reaches a terminal status
\* (or is gone); it never stays in cancel_requested forever.
C3_CancelRequestedResolves ==
    \A j \in JobIds :
        (Exists(j) /\ StatusOf(j) = "cancel_requested")
            ~> (~Exists(j) \/ StatusOf(j) \in Terminal)

\* C4: a job in cancel_requested leaves that status only to cancelled, with
\* progress 0 and the cancelled payload; it does not end in done or error.
C4_CancelRequestedEndsCancelled ==
    [][\A j \in JobIds :
         (Exists(j) /\ StatusOf(j) = "cancel_requested" /\ jobs'[j].row = "present"
          /\ jobs'[j].status # "cancel_requested")
         => /\ jobs'[j].status = "cancelled"
            /\ jobs'[j].progress = 0
            /\ jobs'[j].error = CancelledPayload]_vars

\* C5: once a job's status is cancelled or done, no step changes it.
C5_CancelledDoneTerminal ==
    [][\A j \in JobIds :
         (Exists(j) /\ StatusOf(j) \in {"cancelled", "done"} /\ jobs'[j].row = "present")
         => jobs'[j].status = StatusOf(j)]_vars

C7_OneActiveAttempt ==
    \A w1, w2 \in Workers :
        (w1 # w2 /\ Attempting(w1) /\ Attempting(w2)) => workers[w1].job # workers[w2].job

\* C8: a retry request proceeds to its commit only when it read status error,
\* and its read changes neither the rows nor the queue; its commit sets status
\* queued, progress 0 and error null on the same row, leaves every other row
\* alone and appends exactly one work item, for the task of the job's source_type.
C8_RetryContract ==
    [][\A c \in Clients :
         /\ (reqs[c].pc = "idle" /\ reqs'[c].pc = "retry_commit")
            => /\ Exists(reqs'[c].job) /\ StatusOf(reqs'[c].job) = "error"
               /\ jobs' = jobs /\ queue' = queue
         /\ (reqs[c].pc = "retry_commit" /\ reqs'[c].pc = "idle" /\ Exists(reqs[c].job))
            => /\ jobs' = [jobs EXCEPT ![reqs[c].job].status = "queued",
                                       ![reqs[c].job].progress = 0,
                                       ![reqs[c].job].error = NoError]
               /\ queue' = Append(queue,
                                  [rq_id |-> RqGeneratedId,
                                   task |-> IF jobs[reqs[c].job].source_type = "youtube"
                                            THEN "process_youtube" ELSE "process_upload",
                                   job |-> reqs[c].job])]_vars

\* a retry has been committed on a job that had made progress and failed
C8_Witness ==
    \E j \in JobIds :
        /\ Exists(j) /\ StatusOf(j) = "queued" /\ accepted_retries[j] > 0
        /\ jobs[j].transcript # "null"
        /\ \E i \in 1..Len(queue) : queue[i].job = j

\* C9: the number of accepted retries of a job never exceeds the configured
\* maximum retry count.
C9_RetriesBounded ==
    \A j \in JobIds : accepted_retries[j] <= job_max_retries

\* C10: while a job's status is error no worker takes a work item for it, and
\* the status leaves error only by a committed retry, to queued.
C10_ErrorUntilRetry ==
    [][\A j \in JobIds :
         (Exists(j) /\ StatusOf(j) = "error" /\ jobs'[j].row = "present")
         => /\ \/ jobs'[j].status = "error"
               \/ /\ jobs'[j].status = "queued"
                  /\ accepted_retries'[j] = accepted_retries[j] + 1
            /\ \A w \in Workers :
                 (workers[w].pc = "idle" /\ workers'[w].pc # "idle") => workers'[w].job # j]_vars

\* the worker has made the write that starts its attempt and not yet left the
\* try/except
Started(w) == workers[w].pc \in ((TryBody \ {"sweep", "mark_running"}) \cup {"except"})

\* C11: in every reachable state a job whose status is done has a transcript
\* and a summary, and a job that has a summary has a transcript.
C11_DoneHasTranscriptAndSummary ==
    \A j \in JobIds :
        Exists(j) =>
            /\ (StatusOf(j) = "done") => (jobs[j].transcript # "null" /\ jobs[j].summary)
            /\ jobs[j].summary => jobs[j].transcript # "null"

\* an attempt that transcribed by ASR has written done and is in its finally
C11_Witness ==
    \E w \in Workers :
        /\ workers[w].pc = "finally"
        /\ Exists(workers[w].job)
        /\ StatusOf(workers[w].job) = "done"
        /\ jobs[workers[w].job].transcript = "asr"
        /\ jobs[workers[w].job].summary

\* C12: from the write that starts an attempt to the attempt's terminal write,
\* every step leaves the job's progress within 0..100 and does not lower it,
\* whatever cancel requests commit in between.
C12_ProgressNonDecreasing ==
    [][\A w \in Workers :
         (Started(w) /\ Exists(workers[w].job) /\ jobs'[workers[w].job].row = "present")
         => /\ jobs'[workers[w].job].progress \in 0..100
            /\ jobs'[workers[w].job].progress >= jobs[workers[w].job].progress]_vars

\* C13: a step that puts a job into cancel_requested starts from status running.
C13_CancelRequestedFromRunning ==
    [][\A j \in JobIds :
         (Exists(j) /\ StatusOf(j) # "cancel_requested"
          /\ jobs'[j].row = "present" /\ jobs'[j].status = "cancel_requested")
         => StatusOf(j) = "running"]_vars

\* C20: an attempt's write of running does not come after its retention sweep,
\* and no step takes a job from queued straight to error.
C20_RunningBeforeSweep ==
    [][/\ \A w \in Workers :
            workers[w].pc = "sweep" => workers'[w].pc # "mark_running"
       /\ \A j \in JobIds :
            (Exists(j) /\ StatusOf(j) = "queued" /\ jobs'[j].row = "present")
            => jobs'[j].status # "error"]_vars

\* C14: a cancel request that finds the job done, error or cancelled is
\* answered 409, does not go on to a commit, and its step changes neither the
\* rows nor the queue (nor any worker or pending request).
C14_CancelTerminalConflict ==
    [][\A j \in JobIds :
         (Exists(j) /\ StatusOf(j) \in {"done", "error", "cancelled"} /\ reqs["c1"].pc = "idle")
         => /\ ~(/\ reqs'["c1"].pc \in {"cancel_running_commit", "cancel_queued_commit"}
                 /\ reqs'["c1"].job = j)
            /\ (/\ response'["c1"] # response["c1"]
                /\ response'["c1"].op = "cancel"
                /\ response'["c1"].job = j)
               => /\ response'["c1"].code = 409
                  /\ UNCHANGED job_vars]_vars

\* a cancel request on a job that is done has been answered 409
C14_Witness ==
    \E j \in JobIds :
        /\ Exists(j) /\ StatusOf(j) = "done" /\ jobs[j].progress = 100
        /\ response["c1"] = [op |-> "cancel", job |-> j, code |-> 409]

\* rows the step deletes
DeletedByStep == {j \in SweepJobs : table[j].status # "deleted" /\ table'[j].status = "deleted"}

\* C17: the delete step of a sweep removes no row whose age is less than the
\* retention window, and removes at most retention_cleanup_batch_size rows.
C17_SweepSparesYoungAndBatches ==
    [][/\ \A j \in DeletedByStep : ~(table[j].age < RetentionSeconds)
       /\ Cardinality(DeletedByStep) <= settings.retention_cleanup_batch_size]_vars

\* with a retention window of one hour, a sweep has deleted a full batch of
\* two rows and the limit has left a third row that is past the window
C17_Witness ==
    /\ \E w \in Workers : sweepers[w].pc = "normalize"
    /\ settings.retention_cleanup_batch_size = 2
    /\ settings.job_retention_hours = 1
    /\ Cardinality({j \in SweepJobs : table[j].status = "deleted"}) = 2
    /\ \E j \in SweepJobs : StaleFilter(j)

\* C18: at most one worker is inside the body of the retention sweep.
C18_OneSweepAtATime ==
    Cardinality({w \in Workers : sweepers[w].pc \in SweepBody}) <= 1

\* C19: every row in a terminal status (done, error, cancelled) whose age
\* exceeds the retention window is eventually deleted.
C19_OldTerminalDeleted ==
    \A j \in SweepJobs :
        (table[j].status \in Terminal /\ table[j].age > RetentionSeconds)
            ~> (table[j].status = "deleted")

\* C15: when an attempt ends (its finally has run), nothing it owned is left:
\* no staged upload file or blob, no restored file, and no audio, mp3 or chunk
\* file the attempt created.
C15_ScratchReleased ==
    [][(attempt.pc = "finally" /\ attempt'.pc = "idle")
       => {r \in disk' : r.owner \in {0, attempt.n}} = {}]_vars

\* C16: an upload job in a terminal status has neither tmp_path nor
\* redis_blob_key in its source_meta.
C16_TerminalMetaScrubbed ==
    (jobrow.row = "present" /\ jobrow.source_type = "upload" /\ jobrow.status \in Terminal)
        => ~jobrow.has_paths

\* C22: every message that contains "conversion failed" is classified
\* invalid_media_input, not retryable, and every message that contains
\* "rate limit" is classified upstream_rate_limited, retryable, whatever else
\* the message contains.
C22_PhraseDecidesClass ==
    (call.fn = "_classify_error" /\ call.pc = "returned") =>
        /\ Contains(call.arg, <<"conversion failed">>) =>
             call.result = Classified("invalid_media_input", FALSE)
        /\ Contains(call.arg, <<"rate limit">>) =>
             call.result = Classified("upstream_rate_limited", TRUE)

\* C23: every failure gets one code of the closed set; retryable is true
\* exactly for audio_too_long_for_model, upstream_rate_limited and
\* upstream_timeout; a message matching no condition gets processing_failed,
\* not retryable.
MatchesNoCondition(msg) ==
    LET low == Lower(msg) IN
    /\ \A p \in {"not a bot", "yt-dlp was blocked", "cookies", "rate limit", "429",
                 "timeout", "timed out"} : ~Contains(low, <<p>>)
    /\ ~(Contains(low, <<"audio duration">>) /\ Contains(low, <<"maximum for this model">>))
    /\ ~Contains(low, <<"ffmpeg", "conversion failed">>)

C23_ClosedSetOfCodes ==
    (call.fn = "_classify_error" /\ call.pc = "returned") =>
        /\ call.result.code \in ErrorCodes
        /\ call.result.retryable =
             (call.result.code \in {"audio_too_long_for_model", "upstream_rate_limited",
                                    "upstream_timeout"})
        /\ MatchesNoCondition(call.arg) =>
             call.result = Classified("processing_failed", FALSE)

C23_Witness ==
    /\ call.fn = "_classify_error" /\ call.pc = "returned"
    /\ call.arg = <<"FFmpeg", "conversion failed", "timed out">>
    /\ call.result = Classified("upstream_timeout", TRUE)

\* C21: when the job timeout fires during an attempt, the job ends in status
\* error with the payload upstream_timeout, retryable, and is not left running.
C21_TimeoutEndsInError ==
    (run.alarm = "fired" /\ run.pc \in {"returned", "raised"}) =>
        /\ run.row.status = "error"
        /\ run.row.error = Classified("upstream_timeout", TRUE)

\* C24: for every URL that submission accepts, the attempt goes from the
\* metadata step to the captions step, never to the error handler, and a
\* metadata fetch that failed leaves the metadata fields empty.
C24_MetadataNeverFails ==
    [][(run.pc = "metadata" /\ run'.pc # "metadata") =>
          /\ run'.pc = "captions"
          /\ run'.row.source_meta \in {"meta_filled", "meta_empty"}]_vars

\* C25: the captions lookup precedes any download; audio is downloaded and
\* transcribed only when the lookup returned nothing or blank text; a
\* transcript from captions has source captions and no audio was downloaded,
\* any other transcript has source asr.
C25_CaptionsBeforeAudio ==
    /\ (run.downloaded \/ run.pc \in {"download", "transcribe", "transcribe_retry"}) =>
          run.captions \in {"None", "", "blank_text"}
    /\ run.row.transcript = "captions" => (run.captions = "text" /\ ~run.downloaded)
    /\ run.row.transcript = "asr" => (run.captions \in {"None", "", "blank_text"} /\ run.downloaded)
    /\ (run.row.transcript # "null" /\ run.captions = "text") => run.row.transcript = "captions"

C25_Witness ==
    /\ run.pc = "returned"
    /\ run.row.status = "done"
    /\ run.row.transcript = "asr"
    /\ run.captions = "blank_text"
    /\ run.downloaded

\* C26: transcribe_file returns segments whose start values never decrease
\* and a text that is the transcription of every piece of the file, in order,
\* none missing.
C26_ReassemblyComplete ==
    run.pc = "returned" =>
        /\ \A i \in 1..Len(run.all_segments), j \in 1..Len(run.all_segments) :
             i < j => run.all_segments[i] <= run.all_segments[j]
        /\ run.all_text = [i \in 1..run.pieces |-> i]

\* C27: a chunk whose transcription fails is tried once more in place; when
\* the second try succeeds the loop goes on with the next chunk as after a
\* first try that succeeded, when it fails the failure leaves transcribe_file
\* and the attempt ends in error; no chunk is tried more than twice.
C27_RetryOnceInPlace ==
    [][/\ \A i \in 1..Len(run'.calls) : run'.calls[i] <= 2
       /\ (run.pc = "try" /\ run'.pc = "retry") =>
             (run'.idx = run.idx /\ run'.all_text = run.all_text)
       /\ (run.pc = "retry") =>
             \/ /\ run'.pc = "raised"
                /\ run'.calls[run.idx] = 2
             \/ /\ run'.pc \in {"try", "return"}
                /\ run'.idx = run.idx + 1
                /\ run'.all_text = run.all_text \o Ascending(run.chunks[run.idx])
       /\ (run.pc = "raised") => (run'.pc = "failed" /\ run'.status = "error")]_vars

C27_Witness ==
    /\ run.pc = "returned"
    /\ run.pieces = 2
    /\ run.calls = <<2, 1>>
    /\ run.all_text = <<1, 2>>

\* the sentences of the chunks, in order
RECURSIVE Flatten(_)
Flatten(chunks) == IF chunks = <<>> THEN <<>> ELSE Head(chunks) \o Flatten(Tail(chunks))

\* C28: for a text longer than the budget, every chunk of _chunk_text is at
\* most max_tokens * CHARS_PER_TOKEN characters long and every sentence lies
\* whole in one chunk.
C28_ChunksWithinBudget ==
    (/\ call.fn = "_chunk_text" /\ call.pc = "returned"
     /\ JoinedLen(call.arg) > call.max_tokens * CHARS_PER_TOKEN) =>
        /\ \A i \in 1..Len(call.result) :
             JoinedLen(call.result[i]) <= call.max_tokens * CHARS_PER_TOKEN
        /\ Flatten(call.result) = call.arg

\* C29: whenever generate_summary returns, with one chunk or with several, the
\* result holds tl_dr, key_points, outline, action_items and timestamps, and a
\* field the provider left out is empty.
C29_FiveFieldsAlways ==
    (call.fn = "generate_summary" /\ call.pc \in {"returned", "finished"}
        /\ call.status # "error") =>
        \A f \in {"tl_dr", "key_points", "outline", "action_items", "timestamps"} :
            /\ call.summary.fields[f] \in {"provider", "empty", "extracted"}
            /\ f \notin call.raw.fields =>
                 \/ call.summary.fields[f] = "empty"
                 \/ (f = "timestamps" /\ call.summary.fields[f] = "extracted")

C29_Witness ==
    /\ call.fn = "generate_summary" /\ call.pc = "returned"
    /\ call.chunks = 2
    /\ call.raw.fields = {"tl_dr"}
    /\ call.summary.fields.tl_dr = "provider"
    /\ call.summary.fields.outline = "empty"
    /\ call.summary.fields.timestamps = "empty"

\* C30: a response is parsed whole, else from its fenced block, else from its
\* first brace-delimited span; when none of the three yields an object the
\* parse fails and the attempt ends in error, never in done with an empty
\* summary.
C30_UnparsableFails ==
    (call.fn = "generate_summary" /\ call.raw # NoRaw) =>
        /\ (call.raw.whole = "object" /\ call.pc = "defaults") =>
              call.summary = ParsedObject(call.raw.fields)
        /\ (call.raw.whole = "invalid" /\ call.raw.fenced = "object" /\ call.pc = "defaults") =>
              call.summary = ParsedObject(call.raw.fields)
        /\ (call.raw.whole = "invalid" /\ call.raw.fenced = "none"
              /\ call.raw.braces = "object" /\ call.pc = "defaults") =>
              call.summary = ParsedObject(call.raw.fields)
        /\ (\/ call.raw.whole = "array"
            \/ /\ call.raw.whole = "invalid"
               /\ call.raw.fenced # "object"
               /\ call.raw.braces # "object") =>
              (call.pc # "returned" /\ call.status # "done")

\* C31: the timestamp pass runs only for a transcript of more than 3
\* segments, and when it fails (provider error, unparseable or non-list
\* response) generate_summary still returns the five fields and the job
\* reaches done.
C31_TimestampPassOptional ==
    (call.fn = "generate_summary") =>
        /\ call.ts_pass # "not_run" => call.n_segments > 3
        /\ call.ts_pass \in {"non_list", "unparseable", "provider_error"} =>
              /\ call.pc \in {"returned", "finished"}
              /\ call.pc = "finished" => call.status = "done"
              /\ \A f \in {"tl_dr", "key_points", "outline", "action_items", "timestamps"} :
                   call.summary.fields[f] \in {"provider", "empty"}

C31_Witness ==
    /\ call.fn = "generate_summary" /\ call.pc = "finished"
    /\ call.status = "done"
    /\ call.ts_pass = "provider_error"
    /\ call.n_segments = 4
    /\ call.summary.fields.timestamps = "empty"

\* C32: a saved transcript with synthesized segments has source
\* asr_estimated_segments, one with source asr or captions holds none, and
\* when the provider returned no segments and none were synthesized the
\* transcript is still saved, with an empty segment list.
C32_SegmentProvenance ==
    /\ run.persisted =>
          (run.synthesized <=> run.source = "asr_estimated_segments")
    /\ (run.pc = "finished" /\ run.provider_segments = 0 /\ ~run.synthesized) =>
          (run.persisted /\ run.segments = 0)

\* the part of C32 that holds on every path: provenance of saved segments
C32_ProvenanceTagged ==
    run.persisted =>
        /\ run.synthesized <=> run.source = "asr_estimated_segments"
        /\ run.source \in {"asr", "captions"} => run.segments = run.provider_segments

C32_Witness ==
    /\ run.pc = "finished" /\ run.persisted
    /\ run.path = "upload"
    /\ run.synthesized /\ run.segments = 6
    /\ run.source = "asr_estimated_segments"

\* reading a formatted time back: the value of a run of digits, and the three
\* parts between the colons
DigitValue(c) == (CHOOSE i \in 1..10 : DigitChars[i] = c) - 1

RECURSIVE Number(_)
Number(digits) ==
    IF digits = <<>> THEN 0
    ELSE 10 * Number(SubSeq(digits, 1, Len(digits) - 1)) + DigitValue(digits[Len(digits)])

Colons(text) == {i \in 1..Len(text) : text[i] = ":"}

HmsParts(text) ==
    LET first == CHOOSE i \in Colons(text) : \A k \in Colons(text) : i <= k
        last == CHOOSE i \in Colons(text) : \A k \in Colons(text) : i >= k
    IN  [h |-> SubSeq(text, 1, first - 1),
         m |-> SubSeq(text, first + 1, last - 1),
         s |-> SubSeq(text, last + 1, Len(text))]

\* C33: for a whole number of seconds s >= 0, _seconds_to_hms returns H:M:S
\* with H*3600 + M*60 + S = s, M < 60, S < 60 and every part padded with
\* zeros to two digits; 0, 61, 192 and 3661 give 00:00:00, 00:01:01, 00:03:12
\* and 01:01:01.
C33_HmsExact ==
    (call.fn = "_seconds_to_hms" /\ call.pc = "returned") =>
        LET text == call.result
            parts == HmsParts(text)
        IN  /\ Cardinality(Colons(text)) = 2
            /\ \A i \in 1..Len(text) : text[i] = ":" \/ \E d \in 1..10 : DigitChars[d] = text[i]
            /\ Number(parts.h) * 3600 + Number(parts.m) * 60 + Number(parts.s) = call.arg
            /\ Number(parts.m) < 60 /\ Number(parts.s) < 60
            /\ Len(parts.m) = 2 /\ Len(parts.s) = 2
            /\ Len(parts.h) >= 2
            /\ Number(parts.h) < 100 => Len(parts.h) = 2
            /\ call.arg = 0 => text = <<"0", "0", ":", "0", "0", ":", "0", "0">>
            /\ call.arg = 61 => text = <<"0", "0", ":", "0", "1", ":", "0", "1">>
            /\ call.arg = 192 => text = <<"0", "0", ":", "0", "3", ":", "1", "2">>
            /\ call.arg = 3661 => text = <<"0", "1", ":", "0", "1", ":", "0", "1">>

C33_Witness ==
    /\ call.fn = "_seconds_to_hms" /\ call.pc = "returned"
    /\ call.arg = 3661
    /\ call.result = <<"0", "1", ":", "0", "1", ":", "0", "1">>

\* C34: every chunk _split_audio produces is within the ceiling: with
\* segment_secs = max(60, floor(0.9 * max_bytes / (file_size / duration))),
\* segment_secs * (file_size / duration) <= max_bytes, the 60-second floor
\* included.
C34_ChunksWithinCeiling ==
    (call.fn = "_split_audio" /\ call.pc = "returned" /\ ~call.whole) =>
        call.segment_secs * call.file_size <= call.max_bytes * call.duration

\* where the fitted length is above the floor the cut is within the ceiling
C34_FittedWithinCeiling ==
    (call.fn = "_split_audio" /\ call.pc = "returned" /\ ~call.whole
        /\ call.segment_secs > MinSegmentSecs) =>
        call.segment_secs * call.file_size <= call.max_bytes * call.duration

\* C35: a row the retention sweep deletes is in status done or error at the
\* moment of the delete, so a job that a retry has reset to queued after the
\* sweep's query keeps its row, as does every queued or running job.
C35_DeletesOnlyFinished ==
    [][\A j \in RaceJobs :
          (run.table[j].row = "present" /\ run'.table[j].row = "deleted") =>
              run.table[j].status \in {"done", "error"}]_vars

\* what the sweep's query guarantees: a deleted row was selected as done or
\* error and behind the cutoff
C35_SelectedWhileFinished ==
    \A j \in RaceJobs :
        (run.sweep.pc = "delete" /\ j \in run.sweep.stale_jobs) => run.table[j].old

\* the staged input of the upload: the file upload_file wrote and its blob
StagedInput(d) == {r \in d : r.kind \in {"staged_file", "staged_blob"}}

\* C36: the staged input of an upload job stays available to a retry: the
\* finally of an attempt that ended in error leaves the staged file and the
\* blob where they are, so that the retry attempt can locate or restore the
\* input and reach done.
C36_StagedInputKept ==
    [][(/\ attempt.pc = "finally" /\ attempt'.pc = "idle"
        /\ jobrow.row = "present" /\ jobrow.source_type = "upload"
        /\ jobrow.status = "error")
       => StagedInput(disk') = StagedInput(disk)]_vars

\* what the code gives instead: no second attempt of an upload job gets past
\* the resolution of its input
C36_RetryStopsAtResolve ==
    (attempt.n >= 2 /\ jobrow.source_type = "upload") =>
        attempt.pc \in {"idle", "load", "resolve", "except", "finally"}

\* C37: a job in status queued has a pending work item, or a worker has taken
\* one and is about to start the attempt (or the handler that committed queued
\* is still on its way to the enqueue call): neither submission nor retry
\* leaves a queued job with nothing enqueued.
C37_QueuedHasWorkItem ==
    \A j \in EnqJobs :
        run.rows[j].status = "queued" =>
            \/ run.pending[j] > 0
            \/ run.worker.pc = "start" /\ run.worker.job = j
            \/ run.handler.pc = "enqueue" /\ run.handler.job = j

\* while every enqueue call so far has pushed its item, C37 holds: a job that
\* was never failed by the queue is never stranded
C37_NoItemWithoutCommit ==
    \A j \in EnqJobs : run.pending[j] > 0 => run.rows[j].status = "queued"

\* the accepted requests of key k whose time is in [from, from + window)
AcceptedWithin(k, from) ==
    {i \in 1..Len(run.accepted[k]) :
        from <= run.accepted[k][i] /\ run.accepted[k][i] < from + LimiterWindow}

\* C38: for every scope and client IP the limiter accepts at most `limit`
\* requests within any window of window_seconds, with requests running side by
\* side; a time of a request is the time the limiter took for it.
C38_AtMostLimitPerWindow ==
    \A k \in LimiterKeys : \A from \in 0..MaxClock :
        Cardinality(AcceptedWithin(k, from)) <= LimiterLimit

\* the other two parts of C38: a step of the limiter on one key leaves every
\* other bucket as it is, and a rejected request adds nothing to its own
C38_RejectedNotRecorded ==
    [][\A t \in LimiterThreads :
          (run.threads[t].pc = "lock" /\ run'.threads[t].pc = "idle") =>
              /\ \A k \in LimiterKeys \ {run.threads[t].key} :
                    run'.buckets[k] = run.buckets[k]
              /\ run'.threads[t].answer = 429 =>
                    /\ run'.accepted = run.accepted
                    /\ Len(run'.buckets[run.threads[t].key])
                          <= Len(run.buckets[run.threads[t].key])]_vars

\* C39: an upload larger than the configured maximum is rejected (413) and
\* leaves nothing: no job row, no work item, no temp file and no Redis blob.
C39_OversizeLeavesNothing ==
    /\ (run.pc = "returned" /\ run.file_size > run.max_bytes) => run.answer = 413
    /\ run.answer = 413 =>
          /\ run.file_size > run.max_bytes
          /\ ~run.row
          /\ run.work_items = 0
          /\ ~run.tmp_file.exists
          /\ ~run.blob.exists

\* a rejection after two blocks had been written to the file and to the blob
C39_Witness ==
    /\ run.pc = "returned" /\ run.answer = 413
    /\ run.size > 2 * ReadBlock
    /\ run.max_bytes = 2 * ReadBlock
    /\ ~run.tmp_file.exists /\ ~run.blob.exists

\* C40: a status, result, retry or cancel request of a principal who does not
\* own the job is answered job-not-found and changes nothing: its answer is the
\* same in the world where the id names another principal's job and in the
\* world where it names none, and the job is left as it was.
C40_ForeignJobLooksAbsent ==
    (run.last.principal = "p") =>
        /\ run.answer["present"] = run.answer["absent"]
        /\ run.answer["present"] = NotFound
        /\ run.world = run.before

\* a stranger's cancel of a running job: 404, and the job still running
C40_Witness ==
    /\ run.last = [principal |-> "p", op |-> "cancel"]
    /\ run.world["present"].exists
    /\ run.world["present"].status = "running"
    /\ run.answer["present"] = NotFound
====
